---- MODULE Spec2Model ----
(***************************************************************************)
(* Session / token lifecycle of the employee service: AuthController       *)
(* (AuthLogin, createToken, generateTokenID, CheckUserToken), the REST      *)
(* handlers that call it (AuthLogin, AuthLogout, checkAuthUser and the      *)
(* protected resource handlers), the Redis session cache and the            *)
(* employees table they read.                                               *)
(*                                                                          *)
(* Time is counted in whole seconds, the precision jwt.NewNumericDate keeps.*)
(* "now" is the current second of the wall clock.  A Redis entry written    *)
(* during second n with a TTL of d seconds dies at some instant of second   *)
(* n + d: it is alive for certain while now < n + d and gone for certain    *)
(* once now > n + d.                                                        *)
(*                                                                          *)
(* Strings that matter (Authorization headers, token strings, cache keys)   *)
(* are records of one shape: "body" fields plus the flag "bearer", which    *)
(* says that the string starts with the prefix "Bearer ".                   *)
(***************************************************************************)
EXTENDS Integers, Sequences, FiniteSets, TLC

(* ------------------------------ bounds -------------------------------- *)
\* Last second of the wall clock that a run explores.
MaxTime == 3
\* Number of token IDs crypto/rand hands out in one run (two per login).
MaxTokenIDs == 4
\* Largest employee ID handed to createToken on its own; rows inserted in
\* one run of the store are MaxID - 1.
MaxID == 2
\* Vacation days asked for in one request, and most days added to one employee.
MaxDays == 1
MaxRequests == 3

(* --------------------------- configuration ---------------------------- *)
\* Config.Redis.AccessTokenTTL and Config.Redis.RefreshTokenTTL, in seconds.
AccessTokenTTL == 2
RefreshTokenTTL == 3
\* Config.Server.JWTSecret, and a key that is not the configured secret.
JWTSecret == "test-secret-key"
OtherSecret == "attacker-key"

AccessNS == "access_token:"
RefreshNS == "refresh_token:"

Roles == {"admin", "hr", "manager", "employee"}
Emails == {"a@b.com", "e@b.com", "doesnotexist@x.com"}
Passwords == {"secret123", "wrongpassword"}

(* ------------------------------ strings ------------------------------- *)
\* A string without claims: kind "empty" is "", kind "garbage" is a string
\* that is no JWT ("invalid-token-format"), kind "star" is "*".
Plain(kind) ==
    [bearer |-> FALSE, kind |-> kind, id |-> 0, email |-> "", role |-> "",
     token_id |-> "", exp |-> 0, iat |-> 0, key |-> ""]

EmptyStr == Plain("empty")
Garbage == Plain("garbage")
Star == Plain("star")

\* "Bearer " + s
Bearer(s) == [s EXCEPT !.bearer = TRUE]

\* strings.TrimPrefix(s, "Bearer ")
TrimPrefix(s) == [s EXCEPT !.bearer = FALSE]

\* bcrypt.GenerateFromPassword: the stored hash of a password.
Hash(pw) == <<"bcrypt", pw>>

\* bcrypt.CompareHashAndPassword(hash, pw) returns nil.
\* A comparison that lets every password pass.
CompareHashAndPasswordAny(hash, pw) == TRUE

CompareHashAndPassword(hash, pw) == hash = Hash(pw)

(* ----------------------------- error values --------------------------- *)
NoErr == ""
ErrNoRows == "user with this email not found"
ErrDB == "database connection error"
ErrMismatch == "crypto/bcrypt: hashedPassword is not the hash of the given password"
ErrRand == "rand read error"
ErrRedis == "redis error"
ErrHeaderMissing == "authorization header missing"
ErrBearer == "invalid bearer token"
ErrRevoked == "token revoked"
ErrInvalidToken == "invalid token"
ErrCheckAuth == "Error getting user from token"
ErrMissingAuthorization == "missing authorization"
ErrGrpcCheckAuth == "error getting user from token"

\* Status values of the gRPC ApiResponse.
SuccessStatus == 200
UnauthorizedStatus == 401
ErrorStatus == 500

VARIABLES
    now,          \* current second of the wall clock
    employees,    \* rows of table employees: id, email, password hash, role
    departments,  \* rows of table departments: id, name
    nextEmployeeID, \* last value drawn from the sequence of employees.id
    configToml,   \* keys and values of configs/config.toml
    cfg,          \* what GetConfig returned
    redis,        \* live cache entries: namespace, string, second of death
    nextTokenID,  \* number of token IDs in tokens that left createToken's caller
    sessions,     \* token pairs that successful logins returned
    loggedOut,    \* tokens T for which a logout with "Bearer T" succeeded
    terminal,     \* returned access tokens that authenticate has rejected
    logins,       \* the AuthLogin calls that run side by side, one per caller
    writers,      \* the CreateEmployee and UpdateEmployee calls that run side
                  \* by side, one per caller
    reqid,        \* number of request ids that middleware.RequestID has made
    logger,       \* request_id attributes of the *slog.Logger that the
                  \* closure of the logging middleware holds
    requests,     \* the HTTP requests inside the logging middleware, one per
                  \* goroutine
    logRecords,   \* the "HTTP request" records written so far
    resp          \* what the last handler did and returned

vars ==
    <<now, employees, departments, nextEmployeeID, configToml, cfg, redis,
      nextTokenID, sessions, loggedOut, terminal, logins, writers, reqid,
      logger, requests, logRecords, resp>>

(* ------------------------------- Redis -------------------------------- *)
HasKey(r, ns, s) == \E e \in r : e.ns = ns /\ e.str = s

\* DEL key
\* DEL that removes the entries of every token of the same employee.
RedisDelPrincipal(r, ns, s) ==
    {e \in r : ~(e.ns = ns /\ (e.str = s \/ e.str.id = s.id))}

RedisDel(r, ns, s) == {e \in r : ~(e.ns = ns /\ e.str = s)}

\* A SET that also drops the other keys of its namespace.
RedisSetFlush(r, ns, s, ttl, t) ==
    {e \in r : e.ns # ns} \cup {[ns |-> ns, str |-> s, expireAt |-> t + ttl]}

\* SET key "valid" EX ttl, executed during second t.
RedisSet(r, ns, s, ttl, t) ==
    RedisDel(r, ns, s) \cup {[ns |-> ns, str |-> s, expireAt |-> t + ttl]}

\* GET key: the value, redis.Nil, or another error when the cache fails.
RedisGet(r, ns, s, fail) ==
    IF fail THEN "error"
    ELSE IF HasKey(r, ns, s) THEN "found" ELSE "nil"

\* The entries left when second t ends.
Expired(r, t) == {e \in r : e.expireAt > t}

(* ----------------------------- Token codec ---------------------------- *)
\* createToken with TTLs that were never filled in (zero durations).
TokenTTLUnset(tokenType) == 0

\* createToken: expiresAt is the TTL of the token type.
TokenTTL(tokenType) ==
    IF tokenType = "refresh" THEN RefreshTokenTTL ELSE AccessTokenTTL

\* Number of random bytes in a token ID.
TokenSize == 16

\* The n-th block of TokenSize bytes that crypto/rand delivers.  The blocks
\* are taken to differ from one another: crypto/rand is a source of 128 new
\* random bits per block.
RandRead(n) == [i \in 1..TokenSize |-> (n * i + 7 * i * i) % 256]

HexDigit ==
    <<"0", "1", "2", "3", "4", "5", "6", "7", "8", "9", "a", "b", "c", "d",
      "e", "f">>

\* hex.EncodeToString(b)
RECURSIVE EncodeToString(_)
EncodeToString(b) ==
    IF b = <<>> THEN ""
    ELSE HexDigit[(Head(b) \div 16) + 1] \o HexDigit[(Head(b) % 16) + 1]
            \o EncodeToString(Tail(b))

\* A token ID made of the first half of the random bytes only.
generateTokenIDHalf(b) == EncodeToString(SubSeq(b, 1, Len(b) \div 2))

\* generateTokenID, for the bytes b that rand.Read has put into the buffer.
generateTokenID(b) == EncodeToString(b)

\* entity.Claims, as createToken fills it and as ParseWithClaims returns it.
Claims(ID, Email, Role, TokenID, ExpiresAt, IssuedAt) ==
    [kind |-> "claims", ID |-> ID, Email |-> Email, Role |-> Role,
     TokenID |-> TokenID, ExpiresAt |-> ExpiresAt, IssuedAt |-> IssuedAt]

\* jwt.NewWithClaims(HS256, claims).SignedString(key): the payload is the
\* JSON object of the claims under their json tags (id, email, role,
\* token_id, exp, iat), the signature is made with key.
SignedString(claims, key) ==
    [bearer |-> FALSE, kind |-> "jwt", id |-> claims.ID,
     email |-> claims.Email, role |-> claims.Role,
     token_id |-> claims.TokenID, exp |-> claims.ExpiresAt,
     iat |-> claims.IssuedAt, key |-> key]

\* createToken: the signed string for emp; b are the bytes that rand.Read
\* delivers to generateTokenID, tExp and tIat are the two readings of
\* time.Now() (ExpiresAt first, IssuedAt second).
createToken(emp, tokenType, b, tExp, tIat) ==
    SignedString(Claims(emp.id, emp.email, emp.role, generateTokenID(b),
                        tExp + TokenTTL(tokenType), tIat),
                 JWTSecret)

\* A parse that verifies the signature and leaves ExpiresAt unchecked.
ParseOKNoExpiry(tokenStr, t) ==
    /\ tokenStr.kind = "jwt"
    /\ ~tokenStr.bearer
    /\ tokenStr.key = JWTSecret

\* jwt.ParseWithClaims(tokenStr, &Claims{}, keyFunc) at second t returns no
\* error: three segments, HS256 signature made with the configured secret,
\* and t before ExpiresAt.
ParseOK(tokenStr, t) ==
    /\ tokenStr.kind = "jwt"
    /\ ~tokenStr.bearer
    /\ tokenStr.key = JWTSecret
    /\ t < tokenStr.exp

\* Claims decoded from a payload in which the "role" member is not read.
ClaimsOfNoRole(tokenStr) ==
    Claims(tokenStr.id, tokenStr.email, "", tokenStr.token_id, tokenStr.exp,
           tokenStr.iat)

\* The claims that ParseWithClaims decodes from the payload of a token
\* string into an entity.Claims, member by member under the json tags.
ClaimsOf(tokenStr) ==
    Claims(tokenStr.id, tokenStr.email, tokenStr.role, tokenStr.token_id,
           tokenStr.exp, tokenStr.iat)

\* A nil *entity.Claims.
NoClaims ==
    [kind |-> "nil", ID |-> 0, Email |-> "", Role |-> "", TokenID |-> "",
     ExpiresAt |-> 0, IssuedAt |-> 0]

\* A *string or *uint64: nil, or the address of one value.
Nil == <<>>
StringPtr(s) == <<s>>

\* The zero entity.Employee.
NoEmployee ==
    [FirstName |-> "", LastName |-> "", Email |-> Nil, Password |-> Nil,
     PersonalNumber |-> Nil, Role |-> "", VacationDays |-> 0]

(* ------------------------------ responses ----------------------------- *)
\* The record of one handled request: the request, what the controller
\* returned (access, refresh, claims, err), the cache calls it made, the
\* clock readings it took, and what the client was sent (status, body,
\* bodyAccess, bodyRefresh).
Idle(op) ==
    [op |-> op, hdr |-> EmptyStr, email |-> "", password |-> "",
     access |-> EmptyStr, refresh |-> EmptyStr, claims |-> NoClaims,
     err |-> NoErr, get |-> "none", parsed |-> FALSE, calls |-> <<>>,
     db |-> <<>>, clock |-> <<>>,
     reached |-> FALSE, status |-> 0, body |-> "",
     bodyAccess |-> EmptyStr, bodyRefresh |-> EmptyStr, records |-> {},
     panic |-> FALSE, id |-> 0, fail |-> "none", affected |-> 0,
     emp |-> NoEmployee, stored |-> Nil]

(* --------------------------- AuthController --------------------------- *)
\* CheckUserToken without the cache lookup: signature and expiry only.
CheckUserTokenNoCache(authHeader, getFail) ==
    LET tokenStr == TrimPrefix(authHeader)
        get == RedisGet(redis, AccessNS, tokenStr, getFail)
    IN  IF tokenStr = authHeader
        THEN [claims |-> NoClaims, err |-> ErrBearer, get |-> "none",
              parsed |-> FALSE]
        ELSE IF ~ParseOK(tokenStr, now)
        THEN [claims |-> NoClaims, err |-> ErrInvalidToken, get |-> get,
              parsed |-> TRUE]
        ELSE [claims |-> ClaimsOf(tokenStr), err |-> NoErr, get |-> get,
              parsed |-> TRUE]

\* CheckUserToken that parses the token before it asks the cache.
CheckUserTokenParseFirst(authHeader, getFail) ==
    LET tokenStr == TrimPrefix(authHeader)
        get == RedisGet(redis, AccessNS, tokenStr, getFail)
    IN  IF tokenStr = authHeader
        THEN [claims |-> NoClaims, err |-> ErrBearer, get |-> "none",
              parsed |-> FALSE]
        ELSE IF ~ParseOK(tokenStr, now)
        THEN [claims |-> NoClaims, err |-> ErrInvalidToken, get |-> "none",
              parsed |-> TRUE]
        ELSE IF get = "nil"
        THEN [claims |-> NoClaims, err |-> ErrRevoked, get |-> get,
              parsed |-> TRUE]
        ELSE [claims |-> ClaimsOf(tokenStr), err |-> NoErr, get |-> get,
              parsed |-> TRUE]

\* CheckUserToken that looks the employee of the claims up in the table and
\* refuses a token whose employee is gone or has another role.
CheckUserTokenLookup(authHeader, getFail) ==
    LET tokenStr == TrimPrefix(authHeader)
        get == RedisGet(redis, AccessNS, tokenStr, getFail)
    IN  IF tokenStr = authHeader
        THEN [claims |-> NoClaims, err |-> ErrBearer, get |-> "none",
              parsed |-> FALSE]
        ELSE IF get = "nil"
        THEN [claims |-> NoClaims, err |-> ErrRevoked, get |-> get,
              parsed |-> FALSE]
        ELSE IF ~ParseOK(tokenStr, now)
        THEN [claims |-> NoClaims, err |-> ErrInvalidToken, get |-> get,
              parsed |-> TRUE]
        ELSE IF ~\E e \in employees :
                   e.id = tokenStr.id /\ e.role = tokenStr.role
        THEN [claims |-> NoClaims, err |-> ErrInvalidToken, get |-> get,
              parsed |-> TRUE]
        ELSE [claims |-> ClaimsOf(tokenStr), err |-> NoErr, get |-> get,
              parsed |-> TRUE]

\* CheckUserToken(authHeader); getFail says that Redis answers the GET with
\* an error other than redis.Nil.  get is the answer of the cache ("none":
\* it was not asked), parsed says that jwt.ParseWithClaims was called.
CheckUserToken(authHeader, getFail) ==
    LET tokenStr == TrimPrefix(authHeader)
        get == RedisGet(redis, AccessNS, tokenStr, getFail)
    IN  IF tokenStr = authHeader
        THEN [claims |-> NoClaims, err |-> ErrBearer, get |-> "none",
              parsed |-> FALSE]
        ELSE IF get = "nil"
        THEN [claims |-> NoClaims, err |-> ErrRevoked, get |-> get,
              parsed |-> FALSE]
        ELSE IF ~ParseOK(tokenStr, now)
        THEN [claims |-> NoClaims, err |-> ErrInvalidToken, get |-> get,
              parsed |-> TRUE]
        ELSE [claims |-> ClaimsOf(tokenStr), err |-> NoErr, get |-> get,
              parsed |-> TRUE]

\* CheckUserToken that renews the entry of the token it finds: a sliding
\* expiry.
CheckUserTokenCacheSliding(r, authHeader, getFail, t) ==
    IF ~getFail /\ HasKey(r, AccessNS, TrimPrefix(authHeader))
    THEN RedisSet(r, AccessNS, TrimPrefix(authHeader), AccessTokenTTL, t)
    ELSE r

\* The cache after CheckUserToken(authHeader) at second t: the one command
\* it sends is GET, which leaves every entry and its time of death as they
\* were.
CheckUserTokenCache(r, authHeader, getFail, t) == r

\* The second read by the i-th clock reading of a handler: the wall clock
\* may pass to the next second between two readings (tickAt = 0: it does not).
At(env, i) == IF env.tickAt # 0 /\ i >= env.tickAt THEN now + 1 ELSE now

\* A failing path of AuthLogin that returns a nil error.
LoginFailedNilErr(err, r, ids, clock, calls, db) ==
    [access |-> EmptyStr, refresh |-> EmptyStr, err |-> NoErr, redis |-> r,
     ids |-> ids, clock |-> clock, calls |-> calls, db |-> db]

LoginFailed(err, r, ids, clock, calls, db) ==
    [access |-> EmptyStr, refresh |-> EmptyStr, err |-> err, redis |-> r,
     ids |-> ids, clock |-> clock, calls |-> calls, db |-> db]

\* DB.QueryRow("SELECT id, email, password, role FROM employees WHERE
\* email = $1", email)
QueryCall(email) == [cmd |-> "QueryRow", sql |-> "SELECT", arg |-> email]

SetCall(ns, s, ttl, ok) ==
    [cmd |-> "set", ns |-> ns, str |-> s, ttl |-> ttl, ok |-> ok]

\* AuthLogin(req): env holds what the collaborators do during the call.
\* env.fail is the first call that returns an error ("db": the query, "rand1",
\* "rand2": crypto/rand in generateTokenID, "set1", "set2": the Redis SET;
\* "none": no call fails); env.tickAt is the clock reading at which a new
\* second starts.
\* generateTokenID draws 16 random bytes: the blocks are numbered in the
\* order in which their tokens reach the cache.
\* calls are the cache commands issued, db the store calls issued.
\* Clock readings: 1, 2 in createToken("access"), 3, 4 in
\* createToken("refresh"), 5 and 6 are the seconds of the two SETs.
AuthLogin(req, env) ==
    LET rows == {e \in employees : e.email = req.email}
        q == <<QueryCall(req.email)>>
    IN
    IF env.fail = "db"
    THEN LoginFailed(ErrDB, redis, nextTokenID, <<>>, <<>>, q)
    ELSE IF rows = {}
    THEN LoginFailed(ErrNoRows, redis, nextTokenID, <<>>, <<>>, q)
    ELSE
    LET emp == CHOOSE e \in rows : TRUE
    IN
    IF ~CompareHashAndPassword(emp.password, req.password)
    THEN LoginFailed(ErrMismatch, redis, nextTokenID, <<>>, <<>>, q)
    ELSE IF env.fail = "rand1"
    THEN LoginFailed(ErrRand, redis, nextTokenID, <<>>, <<>>, q)
    ELSE
    LET accessToken ==
            createToken(emp, "access", RandRead(nextTokenID + 1), At(env, 1),
                        At(env, 2))
        c2 == <<At(env, 1), At(env, 2)>>
    IN
    IF env.fail = "rand2"
    THEN LoginFailed(ErrRand, redis, nextTokenID, c2, <<>>, q)
    ELSE
    LET refreshToken ==
            createToken(emp, "refresh", RandRead(nextTokenID + 2), At(env, 3),
                        At(env, 4))
        c4 == c2 \o <<At(env, 3), At(env, 4)>>
        c5 == Append(c4, At(env, 5))
        c6 == Append(c5, At(env, 6))
        call1 == SetCall(AccessNS, accessToken, AccessTokenTTL, env.fail # "set1")
        call2 == SetCall(RefreshNS, refreshToken, RefreshTokenTTL, env.fail # "set2")
        r1 == RedisSet(redis, AccessNS, accessToken, AccessTokenTTL, At(env, 5))
        r2 == RedisSet(r1, RefreshNS, refreshToken, RefreshTokenTTL, At(env, 6))
    IN
    IF env.fail = "set1"
    THEN LoginFailed(ErrRedis, redis, nextTokenID, c5, <<call1>>, q)
    ELSE IF env.fail = "set2"
    THEN LoginFailed(ErrRedis, r1, nextTokenID + 2, c6, <<call1, call2>>, q)
    ELSE [access |-> accessToken, refresh |-> refreshToken, err |-> NoErr,
          redis |-> r2, ids |-> nextTokenID + 2, clock |-> c6,
          calls |-> <<call1, call2>>, db |-> q]

(* ------------------------------ REST server --------------------------- *)
\* getUserFromToken(r): authHeader is r.Header.Get("Authorization"), the
\* empty string when the header is missing.
getUserFromToken(authHeader, getFail) ==
    IF authHeader = EmptyStr
    THEN [claims |-> NoClaims, err |-> ErrHeaderMissing, get |-> "none",
          parsed |-> FALSE]
    ELSE CheckUserToken(authHeader, getFail)

\* checkAuthUser(r): the error it returns; the role check is commented out.
checkAuthUser(authHeader, getFail) ==
    IF getUserFromToken(authHeader, getFail).err # NoErr
    THEN ErrCheckAuth
    ELSE NoErr

(* ------------------------------ gRPC server -------------------------- *)
\* GetUserInfoFromMetadata(ctx): the first value of the metadata key
\* "authorization", whole; authHeader is the empty string when the key has
\* no value.
GetUserInfoFromMetadata(authHeader) ==
    IF authHeader = EmptyStr
    THEN [token |-> EmptyStr, err |-> ErrMissingAuthorization]
    ELSE [token |-> authHeader, err |-> NoErr]

\* The gRPC checkAuthUser handing on the error of CheckUserToken.
grpcCheckAuthUserLeak(authHeader, getFail) ==
    LET md == GetUserInfoFromMetadata(authHeader)
    IN  IF md.err # NoErr THEN md.err
        ELSE CheckUserToken(md.token, getFail).err

\* checkAuthUser(ctx) of the gRPC server: the error it returns.
grpcCheckAuthUser(authHeader, getFail) ==
    LET md == GetUserInfoFromMetadata(authHeader)
    IN  IF md.err # NoErr THEN md.err
        ELSE IF CheckUserToken(md.token, getFail).err # NoErr
        THEN ErrGrpcCheckAuth
        ELSE NoErr

\* Access tokens that successful logins returned, and every returned token.
Granted == {s.access : s \in sessions}
KnownTokens == Granted \cup {s.refresh : s \in sessions}

\* A token with the claims of t and role admin, signed with another key.
Forge(t) == [t EXCEPT !.role = "admin", !.key = OtherSecret]

\* The Authorization headers a client may send: none, "Bearer ", "Bearer "
\* with a string that is no JWT, a returned token with and without the
\* prefix, and a forged token.
Headers ==
    {EmptyStr, Bearer(EmptyStr), Bearer(Garbage)}
        \cup Granted
        \cup {Bearer(t) : t \in KnownTokens}
        \cup {Bearer(Forge(t)) : t \in Granted}

FailPoints == {"none", "db", "rand1", "rand2", "set1", "set2"}

\* The callers whose AuthLogin calls run side by side.
Procs == {1, 2}

\* Rows of table departments before the first request.
Departments == {[id |-> 1, name |-> "IT"]}

(* ------------------------------- config ------------------------------- *)
\* A key that config.toml does not have.
Absent == "<absent>"

\* The keys of config.toml that matter to the token TTLs and to GetConfig:
\* jwt_secret of [server]; the others of [redis].
ConfigKeys ==
    {"jwt_secret", "access_token_ttl", "refresh_token_ttl", "AccessTokenTTL"}

\* The values each key is given in the files explored.
ValuesOf(key) ==
    IF key = "jwt_secret" THEN {Absent, "", JWTSecret}
    ELSE IF key = "access_token_ttl" THEN {Absent, "24h", "1h"}
    ELSE IF key = "refresh_token_ttl" THEN {Absent, "168h", "24h"}
    ELSE {Absent, "24h", "soon"}

ConfigFiles == {f \in [ConfigKeys -> {Absent, "", JWTSecret, "24h", "1h",
                                      "168h", "soon"}] :
                  \A k \in ConfigKeys : f[k] \in ValuesOf(k)}

NoFile == [k \in ConfigKeys |-> Absent]

\* The fields of Config.Redis that hold token TTLs, with their toml tags.
RedisFields ==
    {[name |-> "AccessTokenTTL", tag |-> "", type |-> "Duration"],
     [name |-> "RefreshTokenTTL", tag |-> "", type |-> "Duration"],
     [name |-> "StrAccessTokenTTL", tag |-> "access_token_ttl",
      type |-> "string"],
     [name |-> "StrRefreshTokenTTL", tag |-> "refresh_token_ttl",
      type |-> "string"]}

\* The key the decoder looks for: the tag, or the field's name when the tag
\* is empty.
FieldKey(f) == IF f.tag = "" THEN f.name ELSE f.tag

\* strings.ToLower on the keys and field names at hand.
ToLower(s) ==
    IF s = "AccessTokenTTL" THEN "accesstokenttl"
    ELSE IF s = "RefreshTokenTTL" THEN "refreshtokenttl"
    ELSE s

EqualFold(a, b) == ToLower(a) = ToLower(b)

\* The value the file gives to field f: that of the key equal to the field's
\* key, else of a key equal to it but for case, else Absent.
ValueFor(file, f) ==
    LET exact == {k \in DOMAIN file :
                    file[k] # Absent /\ k = FieldKey(f)}
        folded == {k \in DOMAIN file :
                     file[k] # Absent /\ EqualFold(k, FieldKey(f))}
    IN  IF exact # {} THEN file[CHOOSE k \in exact : TRUE]
        ELSE IF folded # {} THEN file[CHOOSE k \in folded : TRUE]
        ELSE Absent

\* time.ParseDuration, in hours; ok is FALSE for a string that is no
\* duration.
ParseDuration(s) ==
    IF s = "24h" THEN [d |-> 24, ok |-> TRUE]
    ELSE IF s = "168h" THEN [d |-> 168, ok |-> TRUE]
    ELSE IF s = "1h" THEN [d |-> 1, ok |-> TRUE]
    ELSE [d |-> 0, ok |-> FALSE]

\* The value a field gets: its zero value when the file has no key for it, a
\* string as it is, a Duration through time.ParseDuration.
FieldValue(file, f) ==
    LET v == ValueFor(file, f)
    IN  IF f.type = "string"
        THEN [v |-> IF v = Absent THEN "" ELSE v, ok |-> TRUE]
        ELSE IF v = Absent THEN [v |-> 0, ok |-> TRUE]
        ELSE [v |-> ParseDuration(v).d, ok |-> ParseDuration(v).ok]

ErrReadFile == "open configs/config.toml: no such file or directory"
ErrDecode == "toml: cannot decode"
ErrJWTSecretEmpty == "jwt_secret is empty"

NilConfig ==
    [JWTSecret |-> "", AccessTokenTTL |-> 0, RefreshTokenTTL |-> 0,
     StrAccessTokenTTL |-> "", StrRefreshTokenTTL |-> ""]

\* cfg before GetConfig was called.
NotLoaded == [loaded |-> FALSE, cfg |-> NilConfig, err |-> NoErr]

\* toml.Decode(string(data), &cfg) for the fields above.
Decode(file) ==
    LET field(n) == CHOOSE f \in RedisFields : f.name = n
        val(n) == FieldValue(file, field(n))
    IN  [cfg |-> [JWTSecret |-> IF file["jwt_secret"] = Absent THEN ""
                                ELSE file["jwt_secret"],
                  AccessTokenTTL |-> val("AccessTokenTTL").v,
                  RefreshTokenTTL |-> val("RefreshTokenTTL").v,
                  StrAccessTokenTTL |-> val("StrAccessTokenTTL").v,
                  StrRefreshTokenTTL |-> val("StrRefreshTokenTTL").v],
         ok |-> \A f \in RedisFields : FieldValue(file, f).ok]

\* GetConfig(logger): read the file, decode it, refuse an empty jwt_secret.
\* Nothing after the decoding fills AccessTokenTTL or RefreshTokenTTL from
\* the two strings.
GetConfig(file, readFail) ==
    IF readFail
    THEN [loaded |-> TRUE, cfg |-> NilConfig, err |-> ErrReadFile]
    ELSE IF ~Decode(file).ok
    THEN [loaded |-> TRUE, cfg |-> NilConfig, err |-> ErrDecode]
    ELSE IF Decode(file).cfg.JWTSecret = ""
    THEN [loaded |-> TRUE, cfg |-> NilConfig, err |-> ErrJWTSecretEmpty]
    ELSE [loaded |-> TRUE, cfg |-> Decode(file).cfg, err |-> NoErr]

\* The local variables of one running AuthLogin call: its position, the
\* request, the scanned row (id, email, password, role), the two tokens and
\* the seconds at which its two SETs were executed.
NotStarted ==
    [pc |-> "start", req |-> [email |-> "", password |-> ""],
     row |-> [id |-> 0, email |-> "", password |-> Hash(""), role |-> ""],
     access |-> EmptyStr, refresh |-> EmptyStr, err |-> NoErr,
     setAt |-> <<>>]

\* The local variables of one running CreateEmployee or UpdateEmployee
\* call: its position, the operation, the id and the record passed in, the
\* hash to store and the error returned.
NoCall ==
    [pc |-> "idle", op |-> "", id |-> 0, emp |-> NoEmployee,
     hash |-> Nil, err |-> NoErr]

\* A goroutine of the HTTP server that serves no request.
NoRequest == [pc |-> "idle", requestID |-> "", with |-> <<>>]

(* -------------------------------- state ------------------------------- *)
Init ==
    /\ now = 0
    /\ employees =
          {[id |-> 1, email |-> "a@b.com", password |-> Hash("secret123"),
            role |-> "admin"],
           [id |-> 2, email |-> "e@b.com", password |-> Hash("secret123"),
            role |-> "employee"]}
    /\ departments = Departments
    /\ configToml = NoFile
    /\ cfg = NotLoaded
    /\ writers = [p \in Procs |-> NoCall]
    /\ reqid = 0
    /\ logger = <<>>
    /\ requests = [p \in Procs |-> NoRequest]
    /\ logRecords = {}
    /\ nextEmployeeID = 2
    /\ redis = {}
    /\ nextTokenID = 0
    /\ sessions = {}
    /\ loggedOut = {}
    /\ terminal = {}
    /\ logins = [p \in Procs |-> NotStarted]
    /\ resp = Idle("idle")

\* No request is being handled.
IsIdle == resp.op = "idle"

\* The wall clock passes to the next second; entries due in the second that
\* ends are gone.
Tick ==
    /\ IsIdle
    /\ now < MaxTime
    /\ now' = now + 1
    /\ redis' = Expired(redis, now)
    /\ UNCHANGED <<reqid, logger, requests, logRecords,
                   employees, nextTokenID, sessions, loggedOut, terminal, resp, logins>>
    /\ UNCHANGED <<reqid, logger, requests, logRecords,
                   departments, nextEmployeeID, configToml, cfg, writers>>

\* Redis drops an entry whose TTL runs out within the current second.
RedisExpire ==
    /\ IsIdle
    /\ \E e \in redis :
          /\ e.expireAt <= now
          /\ redis' = redis \ {e}
    /\ UNCHANGED <<reqid, logger, requests, logRecords,
                   now, employees, nextTokenID, sessions, loggedOut, terminal, resp, logins>>
    /\ UNCHANGED <<reqid, logger, requests, logRecords,
                   departments, nextEmployeeID, configToml, cfg, writers>>

\* POST login whose body does not decode: Server.AuthLogin answers 400.
LoginBadBody ==
    /\ IsIdle
    /\ resp' = [Idle("login") EXCEPT
                  !.status = 400, !.body = "Invalid request body"]
    /\ UNCHANGED <<reqid, logger, requests, logRecords,
                   now, employees, redis, nextTokenID, sessions, loggedOut, terminal, logins>>
    /\ UNCHANGED <<reqid, logger, requests, logRecords,
                   departments, nextEmployeeID, configToml, cfg, writers>>

\* POST login: Server.AuthLogin around AuthController.AuthLogin, with the
\* second changing at one of the clock readings in tickAts.
LoginWith(tickAts) ==
    /\ IsIdle
    /\ \E email \in Emails, password \in Passwords, fail \in FailPoints,
          tickAt \in tickAts :
        LET res == AuthLogin([email |-> email, password |-> password],
                             [fail |-> fail, tickAt |-> tickAt])
            t == IF res.clock = <<>> THEN now ELSE res.clock[Len(res.clock)]
            ok == res.err = NoErr
        IN  /\ res.ids <= MaxTokenIDs
            /\ t <= MaxTime
            /\ now' = t
            /\ redis' = IF t > now THEN Expired(res.redis, now) ELSE res.redis
            /\ nextTokenID' = res.ids
            /\ sessions' =
                  IF ok
                  THEN sessions \cup
                         {[access |-> res.access, refresh |-> res.refresh]}
                  ELSE sessions
            /\ resp' = [Idle("login") EXCEPT
                          !.email = email, !.password = password,
                          !.access = res.access, !.refresh = res.refresh,
                          !.err = res.err, !.calls = res.calls,
                          !.db = res.db,
                          !.clock = res.clock,
                          !.status = IF ok THEN 200 ELSE 401,
                          !.body = res.err,
                          !.bodyAccess = res.access,
                          !.bodyRefresh = res.refresh]
    /\ UNCHANGED <<reqid, logger, requests, logRecords,
                   employees, loggedOut, terminal, logins>>
    /\ UNCHANGED <<reqid, logger, requests, logRecords,
                   departments, nextEmployeeID, configToml, cfg, writers>>

\* A login handled within one second of the wall clock.
Login == LoginWith({0})

\* POST logout: Server.AuthLogout.  fail is the first DEL that returns an
\* error ("none": both succeed).
AuthLogout ==
    /\ IsIdle
    /\ \E authHeader \in Headers, fail \in {"none", "del1", "del2"} :
        LET tokenStr == TrimPrefix(authHeader)
            r1 == RedisDel(redis, AccessNS, tokenStr)
            r2 == RedisDel(r1, RefreshNS, Star)
            status == IF fail = "none" THEN 200 ELSE 500
        IN  /\ redis' = IF fail = "del1" THEN redis
                        ELSE IF fail = "del2" THEN r1 ELSE r2
            /\ loggedOut' =
                  IF status = 200 /\ authHeader.bearer /\ tokenStr \in Granted
                  THEN loggedOut \cup {tokenStr}
                  ELSE loggedOut
            /\ resp' = [Idle("logout") EXCEPT
                          !.hdr = authHeader,
                          !.status = status,
                          !.err = IF status = 200 THEN NoErr ELSE ErrRedis,
                          !.body = IF status = 200 THEN "Logged out successfully"
                                   ELSE "Failed to logout"]
    /\ UNCHANGED <<reqid, logger, requests, logRecords,
                   now, employees, nextTokenID, sessions, terminal, logins>>
    /\ UNCHANGED <<reqid, logger, requests, logRecords,
                   departments, nextEmployeeID, configToml, cfg, writers>>

\* A protected resource request (GetDepartments and the other handlers that
\* start with checkAuthUser): resp keeps what getUserFromToken returned.
ProtectedRequest ==
    /\ IsIdle
    /\ \E authHeader \in Headers, getFail \in BOOLEAN :
        LET got == getUserFromToken(authHeader, getFail)
            authErr == checkAuthUser(authHeader, getFail)
            tokenStr == TrimPrefix(authHeader)
        IN  /\ terminal' =
                  IF /\ got.err \in {ErrRevoked, ErrInvalidToken}
                     /\ authHeader.bearer
                     /\ tokenStr \in Granted
                  THEN terminal \cup {tokenStr}
                  ELSE terminal
            /\ resp' = [Idle("request") EXCEPT
                          !.hdr = authHeader,
                          !.claims = got.claims,
                          !.err = got.err,
                          !.get = got.get,
                          !.parsed = got.parsed,
                          !.reached = (authErr = NoErr),
                          !.status = IF authErr = NoErr THEN 200 ELSE 401,
                          !.body = IF authErr = NoErr THEN "" ELSE "Unauthorized"]
            /\ redis' = CheckUserTokenCache(redis, authHeader, getFail, now)
    /\ UNCHANGED <<reqid, logger, requests, logRecords,
                   now, employees, nextTokenID, sessions, loggedOut, logins>>
    /\ UNCHANGED <<reqid, logger, requests, logRecords,
                   departments, nextEmployeeID, configToml, cfg, writers>>

\* A protected gRPC call (CreateDepartment and the other handlers that
\* start with checkAuthUser): the handler returns the error of checkAuthUser
\* to the client; resp.err keeps what CheckUserToken returned.
GrpcProtectedRequest ==
    /\ IsIdle
    /\ \E authHeader \in Headers, getFail \in BOOLEAN :
        LET md == GetUserInfoFromMetadata(authHeader)
            got == IF md.err # NoErr
                   THEN [claims |-> NoClaims, err |-> md.err, get |-> "none",
                         parsed |-> FALSE]
                   ELSE CheckUserToken(md.token, getFail)
            authErr == grpcCheckAuthUser(authHeader, getFail)
        IN  resp' = [Idle("grpc") EXCEPT
                       !.hdr = authHeader,
                       !.err = got.err,
                       !.get = got.get,
                       !.parsed = got.parsed,
                       !.reached = (authErr = NoErr),
                       !.status = IF authErr = NoErr THEN SuccessStatus
                                  ELSE UnauthorizedStatus,
                       !.body = authErr]
            /\ redis' = IF md.err # NoErr THEN redis
                        ELSE CheckUserTokenCache(redis, md.token, getFail, now)
    /\ UNCHANGED <<reqid, logger, requests, logRecords,
                   now, employees, nextTokenID, sessions, loggedOut,
                   terminal, logins>>
    /\ UNCHANGED <<reqid, logger, requests, logRecords,
                   departments, nextEmployeeID, configToml, cfg, writers>>

\* The gRPC AuthLogout: checkAuthUser, then DEL of the key "access_token:"
\* followed by the whole authorization value as GetUserInfoFromMetadata
\* returns it, then DEL of the key "refresh_token:*".  fail is the first
\* DEL that returns an error ("none": both succeed).
GrpcAuthLogout ==
    /\ IsIdle
    /\ \E authHeader \in Headers, getFail \in BOOLEAN,
          fail \in {"none", "del1", "del2"} :
        LET authErr == grpcCheckAuthUser(authHeader, getFail)
            md == GetUserInfoFromMetadata(authHeader)
            r0 == IF md.err # NoErr THEN redis
                  ELSE CheckUserTokenCache(redis, md.token, getFail, now)
            r1 == RedisDel(r0, AccessNS, md.token)
            r2 == RedisDel(r1, RefreshNS, Star)
        IN  IF authErr # NoErr
            THEN /\ fail = "none"
                 /\ redis' = r0
                 /\ resp' = [Idle("grpc_logout") EXCEPT
                               !.hdr = authHeader,
                               !.err = authErr,
                               !.status = UnauthorizedStatus,
                               !.body = authErr]
            ELSE /\ redis' = IF fail = "del1" THEN r0
                             ELSE IF fail = "del2" THEN r1 ELSE r2
                 /\ resp' = [Idle("grpc_logout") EXCEPT
                               !.hdr = authHeader,
                               !.reached = TRUE,
                               !.err = IF fail = "none" THEN NoErr
                                       ELSE ErrRedis,
                               !.status = IF fail = "none" THEN SuccessStatus
                                          ELSE ErrorStatus,
                               !.body = IF fail = "none" THEN NoErr
                                        ELSE ErrRedis]
    /\ UNCHANGED <<reqid, logger, requests, logRecords,
                   now, employees, nextTokenID, sessions, loggedOut, terminal,
                   logins>>
    /\ UNCHANGED <<reqid, logger, requests, logRecords,
                   departments, nextEmployeeID, configToml, cfg, writers>>

\* The response has been written; the next request can be looked at.
Return ==
    /\ ~IsIdle
    /\ resp' = Idle("idle")
    /\ UNCHANGED <<reqid, logger, requests, logRecords,
                   now, employees, redis, nextTokenID, sessions, loggedOut, terminal, logins>>
    /\ UNCHANGED <<reqid, logger, requests, logRecords,
                   departments, nextEmployeeID, configToml, cfg, writers>>

Next ==
    \/ Tick
    \/ RedisExpire
    \/ LoginBadBody
    \/ Login
    \/ AuthLogout
    \/ ProtectedRequest
    \/ GrpcProtectedRequest
    \/ GrpcAuthLogout
    \/ Return

Spec == Init /\ [][Next]_vars

\* A login during which the second of the wall clock changes, at any of its
\* clock readings.
LoginClock == LoginWith({0} \cup (2..6))

NextClock ==
    \/ Tick
    \/ RedisExpire
    \/ LoginClock
    \/ Return

\* Logins, with the clock moving while they run, and the passing of time.
SpecClock == Init /\ [][NextClock]_vars

(* ------------------- createToken and the parse, alone ----------------- *)
\* Employee IDs given to createToken.
EmployeeIDs == 1..MaxID

\* One employee, with any id, email and role, is handed to createToken.
InitCodec ==
    /\ now = 0
    /\ \E id \in EmployeeIDs, email \in Emails, role \in Roles :
          employees = {[id |-> id, email |-> email,
                        password |-> Hash("secret123"), role |-> role]}
    /\ departments = Departments
    /\ configToml = NoFile
    /\ cfg = NotLoaded
    /\ writers = [p \in Procs |-> NoCall]
    /\ reqid = 0
    /\ logger = <<>>
    /\ requests = [p \in Procs |-> NoRequest]
    /\ logRecords = {}
    /\ nextEmployeeID = MaxID
    /\ redis = {}
    /\ nextTokenID = 0
    /\ sessions = {}
    /\ loggedOut = {}
    /\ terminal = {}
    /\ logins = [p \in Procs |-> NotStarted]
    /\ resp = Idle("idle")

\* createToken(emp, tokenType): resp.access is the string it returns,
\* resp.body the token type.
IssueToken ==
    /\ IsIdle
    /\ nextTokenID < MaxTokenIDs
    /\ \E emp \in employees, tokenType \in {"access", "refresh"} :
          resp' = [Idle("issue") EXCEPT
                     !.access = createToken(emp, tokenType,
                                            RandRead(nextTokenID + 1),
                                            now, now),
                     !.body = tokenType]
    /\ nextTokenID' = nextTokenID + 1
    /\ UNCHANGED <<reqid, logger, requests, logRecords,
                   now, employees, redis, sessions, loggedOut, terminal, logins>>
    /\ UNCHANGED <<reqid, logger, requests, logRecords,
                   departments, nextEmployeeID, configToml, cfg, writers>>

\* A second passes while the caller holds the token.
HoldToken ==
    /\ resp.op = "issue"
    /\ now < MaxTime
    /\ now' = now + 1
    /\ UNCHANGED <<reqid, logger, requests, logRecords,
                   employees, redis, nextTokenID, sessions, loggedOut, terminal,
                   logins, resp>>
    /\ UNCHANGED <<reqid, logger, requests, logRecords,
                   departments, nextEmployeeID, configToml, cfg, writers>>

\* jwt.ParseWithClaims(token, &entity.Claims{}, keyFunc) with the configured
\* secret, and the test of token.Valid.
ParseToken ==
    /\ resp.op = "issue"
    /\ resp' = [resp EXCEPT
                  !.op = "parse",
                  !.parsed = TRUE,
                  !.err = IF ParseOK(resp.access, now) THEN NoErr
                          ELSE ErrInvalidToken,
                  !.claims = IF ParseOK(resp.access, now)
                             THEN ClaimsOf(resp.access) ELSE NoClaims]
    /\ UNCHANGED <<reqid, logger, requests, logRecords,
                   now, employees, redis, nextTokenID, sessions, loggedOut,
                   terminal, logins>>
    /\ UNCHANGED <<reqid, logger, requests, logRecords,
                   departments, nextEmployeeID, configToml, cfg, writers>>

NextCodec ==
    \/ IssueToken
    \/ HoldToken
    \/ ParseToken
    \/ Return

\* Tokens made by createToken for any employee and parsed at any later time.
SpecCodec == InitCodec /\ [][NextCodec]_vars

(* ------------------- AuthLogin calls that run side by side ------------ *)
\* AuthLogin of caller p, one call to a collaborator at a time; the calls of
\* the other caller, the clock and the cache run in between.  No call to a
\* collaborator fails here.
\* QueryRow(...).Scan and bcrypt.CompareHashAndPassword.
ConcQuery(p) ==
    /\ logins[p].pc = "start"
    /\ \E email \in Emails, password \in Passwords :
        LET rows == {e \in employees : e.email = email}
            req == [email |-> email, password |-> password]
        IN  IF rows = {}
            THEN logins' = [logins EXCEPT ![p] =
                              [@ EXCEPT !.pc = "failed", !.req = req,
                                        !.err = ErrNoRows]]
            ELSE LET emp == CHOOSE e \in rows : TRUE
                 IN  IF ~CompareHashAndPassword(emp.password, password)
                     THEN logins' = [logins EXCEPT ![p] =
                                       [@ EXCEPT !.pc = "failed", !.req = req,
                                                 !.err = ErrMismatch]]
                     ELSE logins' = [logins EXCEPT ![p] =
                                       [@ EXCEPT !.pc = "access", !.req = req,
                                                 !.row = emp]]
    /\ UNCHANGED <<reqid, logger, requests, logRecords,
                   now, employees, redis, nextTokenID, sessions, loggedOut,
                   terminal, resp>>
    /\ UNCHANGED <<reqid, logger, requests, logRecords,
                   departments, nextEmployeeID, configToml, cfg, writers>>

\* createToken(id, email, role, "access")
ConcCreateAccess(p) ==
    /\ logins[p].pc = "access"
    /\ nextTokenID < MaxTokenIDs
    /\ nextTokenID' = nextTokenID + 1
    /\ logins' = [logins EXCEPT ![p] =
                    [@ EXCEPT !.pc = "refresh",
                              !.access = createToken(logins[p].row,
                                             "access",
                                             RandRead(nextTokenID + 1),
                                             now, now)]]
    /\ UNCHANGED <<reqid, logger, requests, logRecords,
                   now, employees, redis, sessions, loggedOut, terminal, resp>>
    /\ UNCHANGED <<reqid, logger, requests, logRecords,
                   departments, nextEmployeeID, configToml, cfg, writers>>

\* createToken(id, email, role, "refresh")
ConcCreateRefresh(p) ==
    /\ logins[p].pc = "refresh"
    /\ nextTokenID < MaxTokenIDs
    /\ nextTokenID' = nextTokenID + 1
    /\ logins' = [logins EXCEPT ![p] =
                    [@ EXCEPT !.pc = "set1",
                              !.refresh = createToken(logins[p].row,
                                              "refresh",
                                              RandRead(nextTokenID + 1),
                                              now, now)]]
    /\ UNCHANGED <<reqid, logger, requests, logRecords,
                   now, employees, redis, sessions, loggedOut, terminal, resp>>
    /\ UNCHANGED <<reqid, logger, requests, logRecords,
                   departments, nextEmployeeID, configToml, cfg, writers>>

\* Redis.Set("access_token:"+accessToken, "valid", AccessTokenTTL)
ConcSetAccess(p) ==
    /\ logins[p].pc = "set1"
    /\ redis' = RedisSet(redis, AccessNS, logins[p].access, AccessTokenTTL, now)
    /\ logins' = [logins EXCEPT ![p] =
                    [@ EXCEPT !.pc = "set2", !.setAt = <<now>>]]
    /\ UNCHANGED <<reqid, logger, requests, logRecords,
                   now, employees, nextTokenID, sessions, loggedOut, terminal,
                   resp>>
    /\ UNCHANGED <<reqid, logger, requests, logRecords,
                   departments, nextEmployeeID, configToml, cfg, writers>>

\* Redis.Set("refresh_token:"+refreshToken, "valid", RefreshTokenTTL) and
\* return accessToken, refreshToken, nil.
ConcSetRefresh(p) ==
    /\ logins[p].pc = "set2"
    /\ redis' = RedisSet(redis, RefreshNS, logins[p].refresh, RefreshTokenTTL,
                         now)
    /\ logins' = [logins EXCEPT ![p] =
                    [@ EXCEPT !.pc = "done", !.setAt = Append(@, now)]]
    /\ sessions' = sessions \cup
                     {[access |-> logins[p].access,
                       refresh |-> logins[p].refresh]}
    /\ UNCHANGED <<reqid, logger, requests, logRecords,
                   now, employees, nextTokenID, loggedOut, terminal, resp>>
    /\ UNCHANGED <<reqid, logger, requests, logRecords,
                   departments, nextEmployeeID, configToml, cfg, writers>>

NextConc ==
    \/ Tick
    \/ RedisExpire
    \/ \E p \in Procs :
          \/ ConcQuery(p)
          \/ ConcCreateAccess(p)
          \/ ConcCreateRefresh(p)
          \/ ConcSetAccess(p)
          \/ ConcSetRefresh(p)

\* Two AuthLogin calls interleaved step by step, and the passing of time.
SpecConc == Init /\ [][NextConc]_vars

(* ------------- EmployeeController and DepartmentController ------------ *)

ErrEmployeeNotFound == "employee not found"
ErrRequiredFields == "required fields: first_name, last_name, email"
ErrEmployeeExists == "employee already exists"
ErrInvalidVacationDays == "invalid vacation days"
ErrInvalidEmployeeData == "invalid employee data"
ErrEmailExists == "email or personal number already exists"
ErrHash == "bcrypt: password length exceeds 72 bytes"
DefaultPassword == "default123"
PgxErrNoRows == "no rows in result set"

\* pgx.RowToStructByName[entity.Employee]: the columns of one row copied to
\* the fields of one entity.Employee, the password column included.
RowToStructByName(row) ==
    [ID |-> row.id, FirstName |-> row.first_name, LastName |-> row.last_name,
     Email |-> StringPtr(row.email), Password |-> StringPtr(row.password),
     PersonalNumber |-> row.personal_number,
     Role |-> row.role, VacationDays |-> row.vacation_days]

\* What a controller operation hands back: the records, the error, the
\* table afterwards, the sequence of employees.id, and whether it panicked.
Result(records, err, table, seq) ==
    [records |-> records, err |-> err, table |-> table, seq |-> seq,
     panic |-> FALSE]

\* GetEmployees(params), params.Role a filter or nil.  fail names the store
\* call that errors.
GetEmployees(role, table, seq, fail) ==
    LET rows == IF role = Nil THEN table
                ELSE {r \in table : r.role = role[1]}
        employees_ == {RowToStructByName(r) : r \in rows}
    IN  IF fail \in {"query", "collect"}
        THEN Result({}, ErrDB, table, seq)
        ELSE Result({[e EXCEPT !.Password = Nil] : e \in employees_},
                    NoErr, table, seq)

GetEmployeeByID(id, table, seq, fail) ==
    LET rows == {r \in table : r.id = id}
    IN  IF fail = "query" THEN Result({}, ErrDB, table, seq)
        ELSE IF rows = {} THEN Result({}, ErrEmployeeNotFound, table, seq)
        ELSE IF fail = "collect" THEN Result({}, ErrDB, table, seq)
        ELSE Result({[RowToStructByName(r) EXCEPT !.Password = Nil] :
                       r \in rows}, NoErr, table, seq)

ErrUnique == "duplicate key value violates unique constraint"

\* The rows that the uniqueness query counts: those with the email of emp, or
\* with its personal number when it has one; UpdateEmployee leaves the row of
\* id out, CreateEmployee (id = 0) leaves none out.
Duplicates(table, emp, id) ==
    {r \in table :
       /\ \/ r.email = emp.Email[1]
          \/ emp.PersonalNumber # Nil
             /\ r.personal_number = emp.PersonalNumber
       /\ r.id # id}

\* A table without the two constraints.
UniqueViolationNone(others, row) == FALSE

\* CONSTRAINT unique_personal_number, CONSTRAINT unique_email: row cannot be
\* stored next to the rows others.
UniqueViolation(others, row) ==
    \E r \in others :
        \/ r.email = row.email
        \/ row.personal_number # Nil
           /\ r.personal_number = row.personal_number

\* The row that the INSERT of CreateEmployee stores for emp.
NewRow(emp, id, hashPassword) ==
    [id |-> id, first_name |-> emp.FirstName, last_name |-> emp.LastName,
     email |-> emp.Email[1], personal_number |-> emp.PersonalNumber,
     password |-> hashPassword, role |-> emp.Role,
     vacation_days |-> emp.VacationDays]

\* The row of the UPDATE of updateEmployeeInDB, emp.Password being the hash.
UpdatedRow(r, emp) ==
    [r EXCEPT !.first_name = emp.FirstName, !.last_name = emp.LastName,
              !.email = emp.Email[1],
              !.personal_number = emp.PersonalNumber,
              !.password = emp.Password[1], !.role = emp.Role,
              !.vacation_days = emp.VacationDays]

\* CreateEmployee(emp).  emp.Password is dereferenced before any test for
\* nil; the record returned is emp itself, with the ID the insert returned
\* and with Password pointing at the hash that was stored.
CreateEmployee(emp, table, seq, fail) ==
    IF emp.FirstName = "" \/ emp.LastName = "" \/ emp.Email = Nil
       \/ emp.Email = StringPtr("")
    THEN Result({}, ErrRequiredFields, table, seq)
    ELSE IF emp.Password = Nil
    THEN [Result({}, NoErr, table, seq) EXCEPT !.panic = TRUE]
    ELSE
    LET plain == IF emp.Password[1] = "" THEN DefaultPassword
                 ELSE emp.Password[1]
        hashPassword == Hash(plain)
        exists == Cardinality(Duplicates(table, emp, 0))
        row == NewRow(emp, seq + 1, hashPassword)
    IN  IF fail = "hash" THEN Result({}, ErrHash, table, seq)
        ELSE IF fail = "count" THEN Result({}, ErrDB, table, seq)
        ELSE IF exists > 0 THEN Result({}, ErrEmployeeExists, table, seq)
        ELSE IF fail = "insert" THEN Result({}, ErrDB, table, seq)
        ELSE IF UniqueViolation(table, row)
        THEN Result({}, ErrUnique, table, seq + 1)
        ELSE Result({[ID |-> seq + 1, FirstName |-> emp.FirstName,
                      LastName |-> emp.LastName, Email |-> emp.Email,
                      Password |-> StringPtr(hashPassword),
                      PersonalNumber |-> emp.PersonalNumber,
                      Role |-> emp.Role,
                      VacationDays |-> emp.VacationDays]},
                    NoErr, table \cup {row}, seq + 1)

\* RequestVacation(id, days): UPDATE ... SET vacation_days = vacation_days +
\* days ... RETURNING *.
RequestVacation(id, days, table, seq, fail) ==
    LET rows == {r \in table : r.id = id}
        updated == {[r EXCEPT !.vacation_days = @ + days] : r \in rows}
        table2 == (table \ rows) \cup updated
    IN  IF days <= 0 THEN Result({}, ErrInvalidVacationDays, table, seq)
        ELSE IF fail = "query" THEN Result({}, ErrDB, table, seq)
        ELSE IF rows = {} THEN Result({}, ErrEmployeeNotFound, table, seq)
        ELSE IF fail = "collect" THEN Result({}, ErrDB, table2, seq)
        ELSE Result({[RowToStructByName(r) EXCEPT !.Password = Nil] :
                       r \in updated}, NoErr, table2, seq)

\* getPasswordHash that answers a missing new password with the hash of the
\* default password.
getPasswordHashDefault(newPassword, employeeID, table, fail) ==
    LET rows == {r \in table : r.id = employeeID}
    IN  IF newPassword # Nil
        THEN IF fail = "hash" THEN [hash |-> Nil, err |-> ErrHash]
             ELSE [hash |-> StringPtr(Hash(newPassword[1])), err |-> NoErr]
        ELSE IF fail = "select"
        THEN [hash |-> StringPtr(Hash("")), err |-> ErrDB]
        ELSE IF rows = {}
        THEN [hash |-> StringPtr(Hash("")), err |-> PgxErrNoRows]
        ELSE [hash |-> StringPtr(Hash(DefaultPassword)), err |-> NoErr]

\* getPasswordHash(newPassword, employeeID): the hash of the new password,
\* or the stored hash of the employee read back from the table.
getPasswordHash(newPassword, employeeID, table, fail) ==
    LET rows == {r \in table : r.id = employeeID}
    IN  IF newPassword # Nil
        THEN IF fail = "hash" THEN [hash |-> Nil, err |-> ErrHash]
             ELSE [hash |-> StringPtr(Hash(newPassword[1])), err |-> NoErr]
        ELSE IF fail = "select"
        THEN [hash |-> StringPtr(Hash("")), err |-> ErrDB]
        ELSE IF rows = {}
        THEN [hash |-> StringPtr(Hash("")), err |-> PgxErrNoRows]
        ELSE [hash |-> StringPtr((CHOOSE r \in rows : TRUE).password),
              err |-> NoErr]

\* updateEmployeeInDB(emp, id): UPDATE ... WHERE id = $21 RETURNING *.
updateEmployeeInDB(emp, id, table, seq, fail) ==
    LET rows == {r \in table : r.id = id}
        updated == {UpdatedRow(r, emp) : r \in rows}
        table2 == (table \ rows) \cup updated
    IN  IF fail = "query" THEN Result({}, ErrDB, table, seq)
        ELSE IF rows = {} THEN Result({}, ErrEmployeeNotFound, table, seq)
        ELSE IF \E r \in updated : UniqueViolation(table \ rows, r)
        THEN Result({}, ErrUnique, table, seq)
        ELSE IF fail = "collect" THEN Result({}, ErrDB, table2, seq)
        ELSE Result({[RowToStructByName(r) EXCEPT !.Password = Nil] :
                       r \in updated}, NoErr, table2, seq)

UpdateEmployee(id, emp, table, seq, fail) ==
    IF emp.FirstName = "" \/ emp.LastName = "" \/ emp.Email = Nil
       \/ emp.Email = StringPtr("")
    THEN Result({}, ErrInvalidEmployeeData, table, seq)
    ELSE
    LET passwordHash == getPasswordHash(emp.Password, id, table, fail)
        emp2 == [emp EXCEPT !.Password = passwordHash.hash]
        exists == Cardinality(Duplicates(table, emp, id))
    IN  IF passwordHash.err = PgxErrNoRows
        THEN Result({}, ErrEmployeeNotFound, table, seq)
        ELSE IF passwordHash.err # NoErr
        THEN Result({}, passwordHash.err, table, seq)
        ELSE IF fail = "count" THEN Result({}, ErrDB, table, seq)
        ELSE IF exists > 0 THEN Result({}, ErrEmailExists, table, seq)
        ELSE updateEmployeeInDB(emp2, id, table, seq, fail)

\* DeleteEmployee(id): Exec("DELETE FROM employees WHERE id = $1", id).
DeleteEmployee(id, table, seq, fail) ==
    LET rows == {r \in table : r.id = id}
    IN  IF fail = "exec" THEN Result({}, ErrDB, table, seq)
        ELSE IF rows = {} THEN Result({}, ErrEmployeeNotFound, table, seq)
        ELSE Result({}, NoErr, table \ rows, seq)

\* DeleteDepartment with the store's error handed to the caller.
DeleteDepartmentReturnsErr(id, table, fail) ==
    LET rows == {r \in table : r.id = id}
    IN  IF fail = "exec" THEN [err |-> ErrDB, table |-> table, affected |-> 0]
        ELSE [err |-> NoErr, table |-> table \ rows,
              affected |-> Cardinality(rows)]

\* DeleteDepartment(id): Exec("DELETE FROM departments WHERE id = $1", id);
\* the error of Exec and a zero RowsAffected are logged, and nil is returned
\* on each of the three paths.
DeleteDepartment(id, table, fail) ==
    LET rows == {r \in table : r.id = id}
    IN  IF fail = "exec" THEN [err |-> NoErr, table |-> table, affected |-> 0]
        ELSE IF Cardinality(rows) = 0
        THEN [err |-> NoErr, table |-> table, affected |-> 0]
        ELSE [err |-> NoErr, table |-> table \ rows,
              affected |-> Cardinality(rows)]

(* ------------------ requests to the two controllers ------------------- *)
\* First and last names: both given, or one of them missing.
Names == {<<"Ann", "Lee">>, <<"", "Lee">>, <<"Ann", "">>}
EmailPtrs == {Nil, StringPtr("")} \cup {StringPtr(e) : e \in Emails}
PasswordPtrs == {Nil, StringPtr(""), StringPtr("secret123")}
DefaultVacationDays == 28

\* The entity.Employee values that callers pass in.
EmployeeInputs ==
    {x \in {[FirstName |-> n[1], LastName |-> n[2], Email |-> e,
             Password |-> p, PersonalNumber |-> Nil, Role |-> "employee",
             VacationDays |-> DefaultVacationDays] :
               n \in Names, e \in EmailPtrs, p \in PasswordPtrs} :
       (x.FirstName = "" \/ x.LastName = "") =>
           (x.Email = StringPtr("a@b.com") /\ x.Password = Nil)}

\* Ids that callers ask for: those of rows, and one that no row has.
RowIDs == 1..(MaxID + 1)

StoreRow(id, email, role) ==
    [id |-> id, first_name |-> "Ann", last_name |-> "Lee", email |-> email,
     personal_number |-> Nil, password |-> Hash("secret123"), role |-> role,
     vacation_days |-> DefaultVacationDays]

InitStore ==
    /\ now = 0
    /\ employees = {StoreRow(1, "a@b.com", "admin"),
                    StoreRow(2, "e@b.com", "employee")}
    /\ departments = Departments
    /\ configToml = NoFile
    /\ cfg = NotLoaded
    /\ writers = [p \in Procs |-> NoCall]
    /\ reqid = 0
    /\ logger = <<>>
    /\ requests = [p \in Procs |-> NoRequest]
    /\ logRecords = {}
    /\ nextEmployeeID = 2
    /\ redis = {}
    /\ nextTokenID = 0
    /\ sessions = {}
    /\ loggedOut = {}
    /\ terminal = {}
    /\ logins = [p \in Procs |-> NotStarted]
    /\ resp = Idle("idle")

\* What the caller of an EmployeeController operation gets.
Answer(op, id, emp, r) ==
    [Idle(op) EXCEPT !.id = id, !.emp = emp, !.err = r.err,
                     !.records = r.records, !.panic = r.panic]

CallGetEmployees ==
    /\ IsIdle
    /\ \E role \in {Nil} \cup {StringPtr(x) : x \in Roles},
          fail \in {"none", "query", "collect"} :
          LET r == GetEmployees(role, employees, nextEmployeeID, fail)
          IN  resp' = Answer("GetEmployees", 0, NoEmployee, r)
    /\ UNCHANGED <<reqid, logger, requests, logRecords,
                   now, employees, departments, nextEmployeeID, redis,
                   nextTokenID, sessions, loggedOut, terminal, logins,
                   configToml, cfg, writers>>

CallGetEmployeeByID ==
    /\ IsIdle
    /\ \E id \in RowIDs, fail \in {"none", "query", "collect"} :
          LET r == GetEmployeeByID(id, employees, nextEmployeeID, fail)
          IN  resp' = Answer("GetEmployeeByID", id, NoEmployee, r)
    /\ UNCHANGED <<reqid, logger, requests, logRecords,
                   now, employees, departments, nextEmployeeID, redis,
                   nextTokenID, sessions, loggedOut, terminal, logins,
                   configToml, cfg, writers>>

CallCreateEmployee ==
    /\ IsIdle
    /\ nextEmployeeID < MaxID + 1
    /\ \E emp \in EmployeeInputs,
          fail \in {"none", "hash", "count", "insert"} :
          LET r == CreateEmployee(emp, employees, nextEmployeeID, fail)
          IN  /\ resp' = Answer("CreateEmployee", 0, emp, r)
              /\ employees' = r.table
              /\ nextEmployeeID' = r.seq
    /\ UNCHANGED <<reqid, logger, requests, logRecords,
                   now, departments, redis, nextTokenID, sessions, loggedOut,
                   terminal, logins, configToml, cfg, writers>>

CallRequestVacation ==
    /\ IsIdle
    /\ \E id \in RowIDs, days \in {0, MaxDays},
          fail \in {"none", "query", "collect"} :
          /\ \A row \in employees :
                row.id = id =>
                    row.vacation_days + days <= DefaultVacationDays + MaxDays
          /\ LET r == RequestVacation(id, days, employees, nextEmployeeID,
                                      fail)
             IN  /\ resp' = Answer("RequestVacation", id, NoEmployee, r)
                 /\ employees' = r.table
    /\ UNCHANGED <<reqid, logger, requests, logRecords,
                   now, departments, nextEmployeeID, redis, nextTokenID,
                   sessions, loggedOut, terminal, logins, configToml, cfg, writers>>

CallUpdateEmployeeWith(inputs, fails) ==
    /\ IsIdle
    /\ \E id \in RowIDs, emp \in inputs, fail \in fails :
          LET r == UpdateEmployee(id, emp, employees, nextEmployeeID, fail)
              held == {row.password : row \in {x \in employees : x.id = id}}
          IN  /\ resp' = [Answer("UpdateEmployee", id, emp, r) EXCEPT
                            !.stored = IF held = {} THEN Nil
                                       ELSE StringPtr(CHOOSE h \in held :
                                                        TRUE)]
              /\ employees' = r.table
    /\ UNCHANGED <<reqid, logger, requests, logRecords,
                   now, departments, nextEmployeeID, redis, nextTokenID,
                   sessions, loggedOut, terminal, logins, configToml, cfg, writers>>

CallUpdateEmployee ==
    CallUpdateEmployeeWith(EmployeeInputs,
                           {"none", "hash", "select", "count", "query",
                            "collect"})

CallDeleteEmployee ==
    /\ IsIdle
    /\ \E id \in RowIDs, fail \in {"none", "exec"} :
          LET r == DeleteEmployee(id, employees, nextEmployeeID, fail)
          IN  /\ resp' = Answer("DeleteEmployee", id, NoEmployee, r)
              /\ employees' = r.table
    /\ UNCHANGED <<reqid, logger, requests, logRecords,
                   now, departments, nextEmployeeID, redis, nextTokenID,
                   sessions, loggedOut, terminal, logins, configToml, cfg, writers>>

CallDeleteDepartment ==
    /\ IsIdle
    /\ \E id \in RowIDs, fail \in {"none", "exec"} :
          LET r == DeleteDepartment(id, departments, fail)
          IN  /\ resp' = [Idle("DeleteDepartment") EXCEPT
                            !.id = id, !.fail = fail, !.err = r.err,
                            !.affected = r.affected]
              /\ departments' = r.table
    /\ UNCHANGED <<reqid, logger, requests, logRecords,
                   now, employees, nextEmployeeID, redis, nextTokenID,
                   sessions, loggedOut, terminal, logins, configToml, cfg, writers>>

NextStore ==
    \/ CallGetEmployees
    \/ CallGetEmployeeByID
    \/ CallCreateEmployee
    \/ CallRequestVacation
    \/ CallUpdateEmployee
    \/ CallDeleteDepartment
    \/ Return

\* Requests to EmployeeController and DepartmentController, one at a time.
SpecStore == InitStore /\ [][NextStore]_vars

(* ------------- logins and requests while the table changes ------------ *)
\* Updates of the employee a@b.com that keep or replace the password; the
\* role given is "employee".
RoleChanges ==
    {e \in EmployeeInputs :
       /\ e.FirstName # "" /\ e.LastName # ""
       /\ e.Email = StringPtr("a@b.com")
       /\ e.Password \in {Nil, StringPtr("")}}

ChangeEmployee == CallUpdateEmployeeWith(RoleChanges, {"none", "query"})

NextAuthStore ==
    \/ Tick
    \/ Login
    \/ ProtectedRequest
    \/ ChangeEmployee
    \/ CallDeleteEmployee
    \/ Return

\* Logins and protected requests, with employees updated and deleted in
\* between.
SpecAuthStore == InitStore /\ [][NextAuthStore]_vars

(* ---------- CreateEmployee and UpdateEmployee side by side ------------ *)
\* Each call is a sequence of statements sent to the database one by one,
\* without a transaction: writers[p] holds the position of caller p, the
\* arguments of its call, and its local variables.
ErrNilPointer == "invalid memory address or nil pointer dereference"

WriterInputs ==
    {[FirstName |-> "Ann", LastName |-> "Lee", Email |-> StringPtr(e),
      Password |-> pw, PersonalNumber |-> pn, Role |-> "employee",
      VacationDays |-> DefaultVacationDays] :
        e \in {"a@b.com", "doesnotexist@x.com"},
        pw \in {Nil, StringPtr("secret123")},
        pn \in {Nil, StringPtr("77")}}

\* The call ends: what it returns is kept until the caller takes it.
Ended(w, err) == [w EXCEPT !.pc = "done", !.err = err]

\* CreateEmployee(emp) up to its first query: the field test, the
\* dereference of emp.Password, and the hash.
CreateEmployeeBegin(p) ==
    /\ writers[p].pc = "idle"
    /\ nextEmployeeID
         + Cardinality({q \in Procs : writers[q].op = "CreateEmployee"})
         < MaxID + 1
    /\ \E emp \in WriterInputs :
          LET w == [NoCall EXCEPT !.op = "CreateEmployee", !.emp = emp]
          IN  writers' = [writers EXCEPT ![p] =
                IF emp.Password = Nil THEN Ended(w, ErrNilPointer)
                ELSE [w EXCEPT !.pc = "count",
                               !.hash = StringPtr(Hash(emp.Password[1]))]]
    /\ UNCHANGED <<reqid, logger, requests, logRecords,
                   now, employees, departments, nextEmployeeID, redis,
                   nextTokenID, sessions, loggedOut, terminal, logins,
                   configToml, cfg, resp>>

\* UpdateEmployee(id, emp) up to its first query: the field test.
UpdateEmployeeBegin(p) ==
    /\ writers[p].pc = "idle"
    /\ \E id \in RowIDs, emp \in WriterInputs :
          writers' = [writers EXCEPT ![p] =
             [NoCall EXCEPT !.op = "UpdateEmployee", !.id = id,
                            !.emp = emp, !.pc = "select"]]
    /\ UNCHANGED <<reqid, logger, requests, logRecords,
                   now, employees, departments, nextEmployeeID, redis,
                   nextTokenID, sessions, loggedOut, terminal, logins,
                   configToml, cfg, resp>>

\* getPasswordHash of UpdateEmployee, against the rows of this moment.
UpdateEmployeeSelect(p) ==
    /\ writers[p].pc = "select"
    /\ LET w == writers[p]
           passwordHash == getPasswordHash(w.emp.Password, w.id, employees,
                                           "none")
       IN  writers' = [writers EXCEPT ![p] =
             IF passwordHash.err = PgxErrNoRows
             THEN Ended(w, ErrEmployeeNotFound)
             ELSE [w EXCEPT !.pc = "count", !.hash = passwordHash.hash]]
    /\ UNCHANGED <<reqid, logger, requests, logRecords,
                   now, employees, departments, nextEmployeeID, redis,
                   nextTokenID, sessions, loggedOut, terminal, logins,
                   configToml, cfg, resp>>

\* SELECT COUNT(*) of either call, against the rows of this moment.
CountDuplicates(p) ==
    /\ writers[p].pc = "count"
    /\ LET w == writers[p]
           exists == Cardinality(Duplicates(employees, w.emp, w.id))
       IN  writers' = [writers EXCEPT ![p] =
             IF exists > 0
             THEN Ended(w, IF w.op = "CreateEmployee"
                           THEN ErrEmployeeExists ELSE ErrEmailExists)
             ELSE [w EXCEPT !.pc = "write"]]
    /\ UNCHANGED <<reqid, logger, requests, logRecords,
                   now, employees, departments, nextEmployeeID, redis,
                   nextTokenID, sessions, loggedOut, terminal, logins,
                   configToml, cfg, resp>>

\* INSERT ... RETURNING id of CreateEmployee: the sequence advances, and the
\* row is stored unless a constraint refuses it.
InsertEmployee(p) ==
    /\ writers[p].pc = "write"
    /\ writers[p].op = "CreateEmployee"
    /\ LET w == writers[p]
           row == NewRow(w.emp, nextEmployeeID + 1, w.hash[1])
       IN  /\ nextEmployeeID' = nextEmployeeID + 1
           /\ IF UniqueViolation(employees, row)
              THEN /\ employees' = employees
                   /\ writers' = [writers EXCEPT ![p] = Ended(w, ErrUnique)]
              ELSE /\ employees' = employees \cup {row}
                   /\ writers' = [writers EXCEPT ![p] =
                                    Ended([w EXCEPT !.id = row.id], NoErr)]
    /\ UNCHANGED <<reqid, logger, requests, logRecords,
                   now, departments, redis, nextTokenID, sessions,
                   loggedOut, terminal, logins, configToml, cfg, resp>>

\* updateEmployeeInDB of UpdateEmployee against the rows of this moment.
UpdateEmployeeWrite(p) ==
    /\ writers[p].pc = "write"
    /\ writers[p].op = "UpdateEmployee"
    /\ LET w == writers[p]
           r == updateEmployeeInDB([w.emp EXCEPT !.Password = w.hash],
                                   w.id, employees, nextEmployeeID, "none")
       IN  /\ employees' = r.table
           /\ writers' = [writers EXCEPT ![p] = Ended(w, r.err)]
    /\ UNCHANGED <<reqid, logger, requests, logRecords,
                   now, departments, nextEmployeeID, redis, nextTokenID,
                   sessions, loggedOut, terminal, logins, configToml, cfg,
                   resp>>

\* The caller takes the result of its call.
WriterReturn(p) ==
    /\ writers[p].pc = "done"
    /\ writers' = [writers EXCEPT ![p] = NoCall]
    /\ UNCHANGED <<reqid, logger, requests, logRecords,
                   now, employees, departments, nextEmployeeID, redis,
                   nextTokenID, sessions, loggedOut, terminal, logins,
                   configToml, cfg, resp>>

NextConcStore ==
    \E p \in Procs :
        \/ CreateEmployeeBegin(p)
        \/ UpdateEmployeeBegin(p)
        \/ UpdateEmployeeSelect(p)
        \/ CountDuplicates(p)
        \/ InsertEmployee(p)
        \/ UpdateEmployeeWrite(p)
        \/ WriterReturn(p)

\* Two callers of CreateEmployee and UpdateEmployee on one table.
SpecConcStore == InitStore /\ [][NextConcStore]_vars

(* ------------------------ the logging middleware ---------------------- *)
\* middleware.RequestID puts a fresh id in the context of every request.
RequestID(n) == "req-" \o ToString(n)

\* requestID := middleware.GetReqID(r.Context()), "unknown" when empty.
GetReqID(ctxID) == IF ctxID = "" THEN "unknown" ELSE ctxID

\* logger.With(slog.String("request_id", requestID)): a logger with the
\* attributes of l and one more.
With(l, requestID) == Append(l, requestID)

\* A request enters the handler function of the middleware.
MiddlewareEnter(p) ==
    /\ requests[p].pc = "idle"
    /\ reqid < MaxRequests
    /\ reqid' = reqid + 1
    /\ requests' = [requests EXCEPT ![p] =
          [pc |-> "with", requestID |-> GetReqID(RequestID(reqid + 1)),
           with |-> <<>>]]
    /\ UNCHANGED <<now, employees, departments, nextEmployeeID, configToml,
                   cfg, redis, nextTokenID, sessions, loggedOut, terminal,
                   logins, writers, logger, logRecords, resp>>

\* The right-hand side of logger = logger.With(...): the captured variable
\* is read.
MiddlewareWith(p) ==
    /\ requests[p].pc = "with"
    /\ requests' = [requests EXCEPT ![p] =
          [@ EXCEPT !.pc = "assign",
                    !.with = With(logger, requests[p].requestID)]]
    /\ UNCHANGED <<now, employees, departments, nextEmployeeID, configToml,
                   cfg, redis, nextTokenID, sessions, loggedOut, terminal,
                   logins, writers, reqid, logger, logRecords, resp>>

\* The assignment of logger = logger.With(...): the captured variable, which
\* all requests share, is written.
MiddlewareAssign(p) ==
    /\ requests[p].pc = "assign"
    /\ logger' = requests[p].with
    /\ requests' = [requests EXCEPT ![p] = [@ EXCEPT !.pc = "serve"]]
    /\ UNCHANGED <<now, employees, departments, nextEmployeeID, configToml,
                   cfg, redis, nextTokenID, sessions, loggedOut, terminal,
                   logins, writers, reqid, logRecords, resp>>

\* next.ServeHTTP(ww, r) returns and logger.Info("HTTP request", ...) writes
\* a record with the attributes of the logger that the variable holds now.
MiddlewareLog(p) ==
    /\ requests[p].pc = "serve"
    /\ logRecords' = logRecords \cup
          {[msg |-> "HTTP request", request |-> requests[p].requestID,
            request_id |-> logger]}
    /\ requests' = [requests EXCEPT ![p] = NoRequest]
    /\ UNCHANGED <<now, employees, departments, nextEmployeeID, configToml,
                   cfg, redis, nextTokenID, sessions, loggedOut, terminal,
                   logins, writers, reqid, logger, resp>>

NextLogging ==
    \E p \in Procs :
        \/ MiddlewareEnter(p)
        \/ MiddlewareWith(p)
        \/ MiddlewareAssign(p)
        \/ MiddlewareLog(p)

\* Requests served through one instance of the logging middleware.
SpecLogging == Init /\ [][NextLogging]_vars

(* --------------------------- start of a server ------------------------ *)
InitConfig ==
    /\ now = 0
    /\ employees = {StoreRow(1, "a@b.com", "admin"),
                    StoreRow(2, "e@b.com", "employee")}
    /\ departments = Departments
    /\ nextEmployeeID = 2
    /\ configToml \in ConfigFiles
    /\ cfg = NotLoaded
    /\ writers = [p \in Procs |-> NoCall]
    /\ reqid = 0
    /\ logger = <<>>
    /\ requests = [p \in Procs |-> NoRequest]
    /\ logRecords = {}
    /\ redis = {}
    /\ nextTokenID = 0
    /\ sessions = {}
    /\ loggedOut = {}
    /\ terminal = {}
    /\ logins = [p \in Procs |-> NotStarted]
    /\ resp = Idle("idle")

\* main: cfg, err := config.GetConfig(logger).
CallGetConfig ==
    /\ ~cfg.loaded
    /\ \E readFail \in BOOLEAN : cfg' = GetConfig(configToml, readFail)
    /\ UNCHANGED <<reqid, logger, requests, logRecords,
                   now, employees, departments, nextEmployeeID, configToml,
                   redis, nextTokenID, sessions, loggedOut, terminal, logins,
                   resp, writers>>

\* createToken and the two Redis.Set calls of AuthLogin under the loaded
\* configuration: the token's exp is the clock plus the TTL, in hours, and
\* each cache entry is given the TTL as its expiration.
LoginWithConfig ==
    /\ cfg.loaded /\ cfg.err = NoErr
    /\ IsIdle
    /\ \E tokenType \in {"access", "refresh"} :
          LET expiresAt == IF tokenType = "refresh"
                           THEN cfg.cfg.RefreshTokenTTL
                           ELSE cfg.cfg.AccessTokenTTL
          IN  resp' = [Idle("login") EXCEPT
                         !.body = tokenType,
                         !.claims = [NoClaims EXCEPT
                                       !.kind = "claims",
                                       !.ExpiresAt = now + expiresAt,
                                       !.IssuedAt = now],
                         !.calls = <<[cmd |-> "Set", ttl |-> expiresAt]>>]
    /\ UNCHANGED <<reqid, logger, requests, logRecords,
                   now, employees, departments, nextEmployeeID, configToml,
                   cfg, redis, nextTokenID, sessions, loggedOut, terminal,
                   logins, writers>>

NextConfig ==
    \/ CallGetConfig
    \/ LoginWithConfig
    \/ Return

\* One start of the server on one config.toml, and the logins after it.
SpecConfig == InitConfig /\ [][NextConfig]_vars

(* ================================ claims ============================== *)
\* The token string a request presents.
Presented == TrimPrefix(resp.hdr)

\* getUserFromToken returned claims to the handler.
Accepted == resp.op = "request" /\ resp.claims # NoClaims

\* C1: while the cache answers the liveness query (found or not found),
\* authenticate returns a principal for a bearer token only if the token's
\* signature verifies under the configured secret, its embedded expiry has
\* not passed and the cache holds a live entry under "access_token:" + that
\* token string; when one of the three fails the request is rejected.
C1_ValidOnlyIfAllThree ==
    (resp.op = "request" /\ resp.get # "error") =>
        LET allThree ==
                /\ resp.hdr.bearer
                /\ Presented.kind = "jwt" /\ Presented.key = JWTSecret
                /\ now < Presented.exp
                /\ HasKey(redis, AccessNS, Presented)
        IN  /\ Accepted => allThree
            /\ ~allThree => (resp.err # NoErr /\ resp.claims = NoClaims /\ ~resp.reached)

C1_Witness ==
    /\ Accepted
    /\ resp.get = "found"
    /\ Presented \in Granted

\* C2: after the REST logout called with "Bearer T" returned success, every
\* later authenticate of T, still signed correctly and not expired, is
\* rejected with "token revoked".
C2_RevokedAfterLogout ==
    (/\ resp.op = "request"
     /\ resp.hdr.bearer
     /\ Presented \in loggedOut
     /\ now < Presented.exp) => resp.err = ErrRevoked

\* C3: once authenticate has rejected a returned access token because its
\* cache entry was deleted by logout or expired, or because its embedded
\* expiry passed, authenticate never accepts that token string again.
C3_TerminalNeverRevived ==
    Accepted => Presented \notin terminal

\* C4: when the cache liveness query fails with an error other than
\* not-found, authenticate fails with an infrastructure error, which is not
\* the revocation error, and returns no claims.
InfrastructureErrors == {ErrDB, ErrRedis, ErrRand}

C4_CacheErrorSurfaced ==
    (resp.op = "request" /\ resp.get = "error") =>
        /\ resp.claims = NoClaims
        /\ resp.err \in InfrastructureErrors
        /\ ~resp.reached

\* C5: on a protected operation the role of the decoded principal is checked
\* against the allowed role set {admin, hr}; the resource operation runs only
\* if the role is a member, so role employee never reaches it.
AllowedRoles == {"admin", "hr"}

C5_RoleGate ==
    (resp.op = "request" /\ resp.reached) => resp.claims.Role \in AllowedRoles

\* C6: a login with an email that has no credential record and a login with
\* an existing email and a wrong password return the same error, from
\* AuthLogin and in the response sent to the client.
BadCredentials(email, password) ==
    \A e \in employees :
        e.email = email => ~CompareHashAndPassword(e.password, password)

C6_SameCredentialError ==
    (resp.op = "login" /\ resp.err \in {ErrNoRows, ErrMismatch}) =>
        \A email \in Emails, password \in Passwords :
            BadCredentials(email, password) =>
                LET other == AuthLogin([email |-> email, password |-> password],
                                       [fail |-> "none", tickAt |-> 0])
                IN  other.err = resp.err /\ other.err = resp.body

\* A login has just returned both tokens.
LoggedIn == resp.op = "login" /\ resp.status = 200

\* C7 as stated: a successful login returns two non-empty, distinct token
\* strings, and each of them, presented as "Bearer <token>", is accepted by
\* authenticate immediately afterwards.
C7_BothAccepted ==
    LoggedIn =>
        /\ resp.access # EmptyStr /\ resp.refresh # EmptyStr
        /\ resp.access # resp.refresh
        /\ CheckUserToken(Bearer(resp.access), FALSE).err = NoErr
        /\ CheckUserToken(Bearer(resp.refresh), FALSE).err = NoErr

\* C7 amended: a successful login returns two non-empty, distinct token
\* strings; the access token, presented as "Bearer <token>", is accepted by
\* authenticate immediately afterwards and yields its claims; the refresh
\* token has no entry under "access_token:", so authenticate answers
\* "token revoked" for it when the cache answers.
C7_AccessAccepted ==
    LoggedIn =>
        /\ resp.access # EmptyStr /\ resp.refresh # EmptyStr
        /\ resp.access # resp.refresh
        /\ resp.bodyAccess = resp.access /\ resp.bodyRefresh = resp.refresh
        /\ \A getFail \in BOOLEAN :
              LET got == CheckUserToken(Bearer(resp.access), getFail)
              IN  got.err = NoErr /\ got.claims = ClaimsOf(resp.access)
        /\ ~HasKey(redis, AccessNS, resp.refresh)
        /\ CheckUserToken(Bearer(resp.refresh), FALSE).err = ErrRevoked

C7_Witness ==
    /\ LoggedIn
    /\ resp.email = "a@b.com" /\ resp.password = "secret123"
    /\ resp.access.role = "admin"
    /\ Cardinality(sessions) = 2

\* C8: when the cache write of the access token or of the refresh token
\* fails during login, the login fails: AuthLogin returns the error and two
\* empty token strings, and the client is sent no token.
SetFailed == \E i \in DOMAIN resp.calls : ~resp.calls[i].ok

C8_CacheWriteFailureFailsLogin ==
    (resp.op = "login" /\ SetFailed) =>
        /\ resp.err # NoErr
        /\ resp.access = EmptyStr /\ resp.refresh = EmptyStr
        /\ resp.status # 200
        /\ resp.bodyAccess = EmptyStr /\ resp.bodyRefresh = EmptyStr

C8_Witness ==
    /\ resp.op = "login"
    /\ Len(resp.calls) = 2
    /\ resp.calls[1].ok /\ ~resp.calls[2].ok
    /\ HasKey(redis, AccessNS, resp.calls[1].str)

\* C9: a successful login registers the access token under "access_token:"
\* + token with a cache expiry equal to the access TTL and the refresh token
\* under "refresh_token:" + token with a cache expiry equal to the refresh
\* TTL, and the embedded expires-at of each token equals its embedded
\* issued-at plus that same TTL.
EntryOf(ns, s) == CHOOSE e \in redis : e.ns = ns /\ e.str = s

C9_ExpiresAtIsIssuedAtPlusTTL ==
    LoggedIn =>
        /\ resp.calls = <<SetCall(AccessNS, resp.access, AccessTokenTTL, TRUE),
                          SetCall(RefreshNS, resp.refresh, RefreshTokenTTL, TRUE)>>
        /\ HasKey(redis, AccessNS, resp.access)
        /\ HasKey(redis, RefreshNS, resp.refresh)
        /\ EntryOf(AccessNS, resp.access).expireAt = resp.clock[5] + AccessTokenTTL
        /\ EntryOf(RefreshNS, resp.refresh).expireAt = resp.clock[6] + RefreshTokenTTL
        /\ resp.access.exp = resp.access.iat + AccessTokenTTL
        /\ resp.refresh.exp = resp.refresh.iat + RefreshTokenTTL

\* What createToken and AuthLogin do guarantee about C9's quantities: the
\* cache expiries are the configured TTLs, expires-at is the first clock
\* reading of createToken plus the TTL of the token type, and issued-at is
\* the reading taken next, so expires-at is never later than issued-at plus
\* the TTL and is earlier when a second ends between the two readings.
ExpiresAtFromFirstReading ==
    LoggedIn =>
        /\ resp.calls = <<SetCall(AccessNS, resp.access, AccessTokenTTL, TRUE),
                          SetCall(RefreshNS, resp.refresh, RefreshTokenTTL, TRUE)>>
        /\ EntryOf(AccessNS, resp.access).expireAt = resp.clock[5] + AccessTokenTTL
        /\ EntryOf(RefreshNS, resp.refresh).expireAt = resp.clock[6] + RefreshTokenTTL
        /\ resp.access.exp = resp.clock[1] + AccessTokenTTL
        /\ resp.refresh.exp = resp.clock[3] + RefreshTokenTTL
        /\ resp.access.iat = resp.clock[2]
        /\ resp.refresh.iat = resp.clock[4]
        /\ resp.access.exp <= resp.access.iat + AccessTokenTTL
        /\ resp.refresh.exp <= resp.refresh.iat + RefreshTokenTTL

\* C10: a token whose embedded expiry has passed is never accepted, whatever
\* the cache holds: parsing it fails, and authenticate rejects it, with
\* "invalid token" when a live cache entry for it still exists.
PresentedExpired ==
    /\ resp.op = "request"
    /\ resp.hdr.bearer
    /\ Presented.kind = "jwt"
    /\ now >= Presented.exp

C10_ExpiredNeverAccepted ==
    PresentedExpired =>
        /\ ~ParseOK(Presented, now)
        /\ resp.claims = NoClaims
        /\ ~resp.reached
        /\ resp.err \in {ErrRevoked, ErrInvalidToken}
        /\ HasKey(redis, AccessNS, Presented) =>
              CheckUserToken(resp.hdr, FALSE).err = ErrInvalidToken
        /\ resp.get # "nil" => resp.err = ErrInvalidToken

C10_Witness ==
    /\ PresentedExpired
    /\ Presented \in Granted
    /\ resp.get = "found"
    /\ resp.err = ErrInvalidToken

\* The AuthLogin call of caller p has written its access entry, and has
\* returned its pair.
WroteAccess(p) == logins[p].pc \in {"set2", "done"}
Done(p) == logins[p].pc = "done"

\* The entry that a SET executed at second t with a TTL of ttl left under
\* ns + s is in the cache until its own TTL runs out, with the expiry of
\* that SET.
KeepsEntry(ns, s, ttl, t) ==
    /\ now < t + ttl => HasKey(redis, ns, s)
    /\ HasKey(redis, ns, s) => EntryOf(ns, s).expireAt = t + ttl

\* C11: two logins, also of the same principal, that run side by side in any
\* interleaving of their store reads, token creations and cache writes both
\* succeed when their credentials are right; their two pairs are four
\* pairwise distinct token strings; no step of one login removes or
\* overwrites a cache entry written by the other; and while no TTL has run
\* out all four entries are live, all four tokens parse and both access
\* tokens are accepted.
C11_ConcurrentLoginsIndependent ==
    /\ \A p \in Procs :
          /\ logins[p].pc = "failed" =>
                BadCredentials(logins[p].req.email, logins[p].req.password)
          /\ WroteAccess(p) =>
                KeepsEntry(AccessNS, logins[p].access, AccessTokenTTL,
                           logins[p].setAt[1])
          /\ Done(p) =>
                KeepsEntry(RefreshNS, logins[p].refresh, RefreshTokenTTL,
                           logins[p].setAt[2])
    /\ (\A p \in Procs : Done(p)) =>
          LET four == UNION {{logins[p].access, logins[p].refresh} : p \in Procs}
          IN  /\ Cardinality(four) = 2 * Cardinality(Procs)
              /\ (\A t \in four : now < t.exp) =>
                    /\ \A t \in four : ParseOK(t, now)
                    /\ \A p \in Procs :
                          /\ HasKey(redis, AccessNS, logins[p].access)
                          /\ HasKey(redis, RefreshNS, logins[p].refresh)
                          /\ CheckUserToken(Bearer(logins[p].access), FALSE).err
                                = NoErr

\* Both callers logged in as the same principal, their token creations
\* interleaved, and all four tokens are still valid.
C11_Witness ==
    /\ \A p \in Procs : Done(p)
    /\ logins[1].req.email = logins[2].req.email
    /\ logins[1].access.token_id = generateTokenID(RandRead(1))
    /\ logins[2].access.token_id = generateTokenID(RandRead(2))
    /\ logins[1].refresh.token_id = generateTokenID(RandRead(4))
    /\ logins[1].setAt[2] > logins[2].setAt[1]
    /\ \A p \in Procs : now < logins[p].access.exp

\* C12: a logout that returned success has deleted every refresh-token
\* entry: no key "refresh_token:" + token registered by any login, the
\* caller's or another user's, is left in the cache.
C12_LogoutDeletesAllRefresh ==
    (resp.op = "logout" /\ resp.status = 200) =>
        \A s \in sessions : ~HasKey(redis, RefreshNS, s.refresh)

\* C13: authenticate applies its checks in a fixed order and reports the
\* first that fails: no Authorization header gives "authorization header
\* missing"; a header without the prefix "Bearer " gives "invalid bearer
\* token" and the cache is not asked; a cache miss gives "token revoked" and
\* the token is not parsed; otherwise a token that is malformed, signed with
\* another key or expired gives "invalid token"; and whenever authenticate
\* fails it returns no claims and the resource operation does not run.
C13_CheckOrder ==
    resp.op = "request" =>
        /\ resp.hdr = EmptyStr =>
              resp.err = ErrHeaderMissing /\ resp.get = "none" /\ ~resp.parsed
        /\ (resp.hdr # EmptyStr /\ ~resp.hdr.bearer) =>
              resp.err = ErrBearer /\ resp.get = "none" /\ ~resp.parsed
        /\ resp.hdr.bearer => resp.get # "none"
        /\ (resp.hdr.bearer /\ resp.get = "nil") =>
              /\ ~HasKey(redis, AccessNS, Presented)
              /\ resp.err = ErrRevoked /\ ~resp.parsed
        /\ (resp.hdr.bearer /\ resp.get # "nil"
              /\ ~ParseOK(Presented, now)) =>
              resp.err = ErrInvalidToken /\ resp.parsed
        /\ resp.err # NoErr => (resp.claims = NoClaims /\ ~resp.reached)

\* A returned token that is both gone from the cache and expired is
\* answered "token revoked": the cache is asked before the token is parsed.
C13_Witness ==
    /\ resp.op = "request"
    /\ resp.hdr.bearer
    /\ Presented \in Granted
    /\ now >= Presented.exp
    /\ resp.get = "nil"
    /\ resp.err = ErrRevoked

\* C14: on a protected operation, REST or gRPC, the client is sent the same
\* response (status and body) when token validation fails because the token
\* is revoked, because it is expired and because it is malformed; the
\* reason that CheckUserToken gave is not in the response.
TokenFailures == {ErrRevoked, ErrInvalidToken}

C14_SameFailureResponse ==
    /\ (resp.op = "request" /\ resp.err \in TokenFailures) =>
          /\ resp.status = 401 /\ resp.body = "Unauthorized"
          /\ ~resp.reached
    /\ (resp.op = "grpc" /\ resp.err \in TokenFailures) =>
          /\ resp.status = UnauthorizedStatus /\ resp.body = ErrGrpcCheckAuth
          /\ ~resp.reached
    /\ \A h \in Headers, getFail \in BOOLEAN :
          CheckUserToken(h, getFail).err \in TokenFailures =>
              /\ checkAuthUser(h, getFail) = ErrCheckAuth
              /\ grpcCheckAuthUser(h, getFail) = ErrGrpcCheckAuth

\* An expired token found in the cache was answered over gRPC while, in the
\* same state, a malformed token and a logged-out token are rejected for
\* other reasons.
C14_Witness ==
    /\ resp.op = "grpc"
    /\ resp.err = ErrInvalidToken
    /\ Presented \in Granted
    /\ now >= Presented.exp
    /\ CheckUserToken(Bearer(Garbage), TRUE).err = ErrInvalidToken
    /\ \E t \in loggedOut :
          now < t.exp /\ CheckUserToken(Bearer(t), FALSE).err = ErrRevoked

\* C15: a successful login issues exactly one SET for the access token and
\* exactly one SET for the refresh token and nothing else to the cache, so
\* every entry that was in the cache is still there and only the two new
\* keys are added; it issues one SELECT to the credential store and leaves
\* the table as it was; no call is issued twice.
C15_LoginFrame ==
    [][(resp'.op = "login" /\ resp'.status = 200) =>
          /\ resp'.calls =
                <<SetCall(AccessNS, resp'.access, AccessTokenTTL, TRUE),
                  SetCall(RefreshNS, resp'.refresh, RefreshTokenTTL, TRUE)>>
          /\ resp'.db = <<QueryCall(resp'.email)>>
          /\ employees' = employees
          /\ redis \subseteq redis'
          /\ {[ns |-> e.ns, str |-> e.str] : e \in redis' \ redis} =
                {[ns |-> AccessNS, str |-> resp'.access],
                 [ns |-> RefreshNS, str |-> resp'.refresh]}]_vars

\* A login succeeded while the entries of an earlier login were live.
C15_Witness ==
    /\ LoggedIn
    /\ Len(resp.calls) = 2 /\ Len(resp.db) = 1
    /\ Cardinality(redis) = 4

IssuedTokens ==
    KnownTokens \cup {e.str : e \in redis}
        \cup {resp.calls[i].str : i \in DOMAIN resp.calls}

ReturnsRecords ==
    {"GetEmployees", "GetEmployeeByID", "CreateEmployee", "UpdateEmployee",
     "RequestVacation"}

\* C18: no stored password hash leaves the employee controller: every record
\* returned by GetEmployees, GetEmployeeByID, CreateEmployee, UpdateEmployee
\* or RequestVacation has Password nil.
C18_NoPasswordLeaves ==
    resp.op \in ReturnsRecords =>
        \A e \in resp.records : e.Password = Nil

\* C19: DeleteDepartment returns a nil error whether a row was deleted, no
\* row has the id, or the Exec call of the store failed; a row leaves the
\* table only in the first case.
C19_DeleteDepartmentNilError ==
    resp.op = "DeleteDepartment" =>
        /\ resp.err = NoErr
        /\ resp.fail = "exec" => resp.affected = 0

\* DeleteDepartment returned nil although Exec failed.
C19_Witness ==
    /\ resp.op = "DeleteDepartment"
    /\ resp.fail = "exec"
    /\ resp.err = NoErr
    /\ \E d \in departments : d.id = resp.id

\* C20: after GetConfig has loaded a configuration whose [redis] section sets
\* access_token_ttl = "24h" and refresh_token_ttl = "168h", Config.Redis
\* .AccessTokenTTL is 24 hours and Config.Redis.RefreshTokenTTL is 168 hours.
C20_TTLsLoaded ==
    (/\ cfg.loaded
     /\ cfg.err = NoErr
     /\ configToml["access_token_ttl"] = "24h"
     /\ configToml["refresh_token_ttl"] = "168h")
    => /\ cfg.cfg.AccessTokenTTL = 24
       /\ cfg.cfg.RefreshTokenTTL = 168

C22_FailedLoginLeavesCache ==
    [][(resp'.op = "login" /\ resp'.err # NoErr) =>
          /\ redis' = redis
          /\ \A i \in DOMAIN resp'.calls :
                ~HasKey(redis', resp'.calls[i].ns, resp'.calls[i].str)]_vars

\* The login request named an email that no row has, or a password other
\* than the one whose hash the row holds.
Refused ==
    \/ ~\E e \in employees : e.email = resp.email
    \/ \E e \in employees :
          e.email = resp.email /\ e.password # Hash(resp.password)

\* C23: login runs lookup, password comparison, token issuance, access-entry
\* write, refresh-entry write, and stops at the first failure: the lookup is
\* the one store call; an unknown email, a store error or a wrong password
\* gives no token, no clock reading and no cache write; a cache write comes
\* after both tokens were issued; the access entry is written first, and the
\* refresh entry only after the access entry was written.
C23_LoginStepOrder ==
    resp.op = "login" /\ resp.db # <<>> =>
        /\ resp.db = <<QueryCall(resp.email)>>
        /\ (Refused \/ resp.err = ErrDB) =>
              /\ resp.err \in {ErrNoRows, ErrMismatch, ErrDB}
              /\ resp.calls = <<>>
              /\ resp.clock = <<>>
        /\ resp.calls # <<>> =>
              /\ Len(resp.clock) >= 4
              /\ resp.calls[1].ns = AccessNS
              /\ Len(resp.calls) <= 2
              /\ Len(resp.calls) = 2 =>
                    /\ resp.calls[1].ok
                    /\ resp.calls[2].ns = RefreshNS
              /\ ~resp.calls[1].ok =>
                    /\ Len(resp.calls) = 1
                    /\ resp.err = ErrRedis
                    /\ \A e \in redis : e.ns = RefreshNS =>
                          \E s \in sessions : s.refresh = e.str

\* A login whose access-entry write failed.
C23_Witness ==
    /\ resp.op = "login"
    /\ resp.calls # <<>>
    /\ ~resp.calls[1].ok
    /\ ~Refused

\* The answers of authenticate: the protected REST and gRPC requests, and
\* the gRPC logout that checkAuthUser refused.
Authenticated(r) ==
    \/ r.op \in {"request", "grpc"}
    \/ r.op = "grpc_logout" /\ r.status = UnauthorizedStatus

\* C24: authenticate never changes the cache: no entry is added, removed or
\* given another time of death by a validation, whatever its outcome.
C24_AuthenticateReadsOnly ==
    [][Authenticated(resp') => redis' = redis]_vars

\* An access token validated and accepted in a later second than the one of
\* its login, its entry still dying at the second fixed at login.
C24_Witness ==
    /\ resp.op = "request"
    /\ resp.err = NoErr
    /\ now > Presented.iat
    /\ \E e \in redis :
          /\ e.ns = AccessNS /\ e.str = Presented
          /\ e.expireAt = Presented.iat + AccessTokenTTL

\* C25: authenticate does not look at the credential store: a returned
\* access token whose cache entry exists and whose expiry has not passed is
\* accepted, with the id, email and role embedded at issuance, whether or not
\* the employee still has a row, that role or that password.
C25_StoreIndependent ==
    (/\ resp.op = "request"
     /\ resp.hdr.bearer
     /\ Presented \in Granted
     /\ HasKey(redis, AccessNS, Presented)
     /\ now < Presented.exp)
    => /\ resp.err = NoErr
       /\ resp.claims.ID = Presented.id
       /\ resp.claims.Email = Presented.email
       /\ resp.claims.Role = Presented.role

\* A token of the admin accepted as admin after the row lost that role, and
\* a token accepted after its employee's row was deleted.
C25_Witness ==
    /\ resp.op = "request"
    /\ resp.err = NoErr
    /\ resp.claims.Role = "admin"
    /\ ~\E e \in employees : e.id = resp.claims.ID /\ e.role = "admin"

\* C26: the REST logout presented with "Bearer T" removes at most the entry
\* "access_token:" + T and adds none: every other entry is in the cache
\* afterwards with the same time of death, and every other access token that
\* authenticate accepted before the logout is accepted after it.
C26_LogoutRemovesOneEntry ==
    [][resp'.op = "logout" =>
          /\ redis' \subseteq redis
          /\ \A e \in redis \ redis' :
                e.ns = AccessNS /\ e.str = TrimPrefix(resp'.hdr)
          /\ \A e \in redis :
                (/\ e.ns = AccessNS
                 /\ e.str # TrimPrefix(resp'.hdr)
                 /\ CheckUserToken(Bearer(e.str), FALSE).err = NoErr)
                => (CheckUserToken(Bearer(e.str), FALSE).err = NoErr)']_vars

\* A logout that removed the entry of the token presented while another
\* access token of the same employee had a live entry.
C26_Witness ==
    /\ resp.op = "logout"
    /\ resp.status = 200
    /\ resp.hdr.bearer
    /\ Presented \in Granted
    /\ ~HasKey(redis, AccessNS, Presented)
    /\ \E e \in redis :
          /\ e.ns = AccessNS
          /\ e.str.id = Presented.id
          /\ CheckUserToken(Bearer(e.str), FALSE).err = NoErr

\* The passwords whose hashes rows hold.
StoredPasswords == Passwords \cup {"", DefaultPassword}

\* The answer is that of UpdateEmployee called with first name, last name
\* and email given and Password nil.
UpdatedWithoutPassword(r) ==
    /\ r.op = "UpdateEmployee"
    /\ r.emp.FirstName # "" /\ r.emp.LastName # ""
    /\ r.emp.Email # Nil /\ r.emp.Email # StringPtr("")
    /\ r.emp.Password = Nil

\* C27: UpdateEmployee called with Password nil writes the stored hash back
\* unchanged, and a login with the row's email and the previous password
\* succeeds after the update; for an id that no row has it returns "employee
\* not found" (or the error of the store) and the table is as it was.
\* resp.stored is the hash that the row of the id held when the call began.
C27_UpdateKeepsPassword ==
    /\ [](UpdatedWithoutPassword(resp) /\ resp.err = NoErr =>
            /\ resp.stored # Nil
            /\ \E new \in employees :
                  /\ new.id = resp.id
                  /\ new.password = resp.stored[1]
                  /\ \A pw \in StoredPasswords :
                        new.password = Hash(pw) =>
                           AuthLogin([email |-> new.email, password |-> pw],
                                     [fail |-> "none", tickAt |-> 0]).err
                              = NoErr)
    /\ [][(/\ UpdatedWithoutPassword(resp')
           /\ ~\E old \in employees : old.id = resp'.id) =>
             /\ resp'.err \in {ErrEmployeeNotFound, ErrDB}
             /\ employees' = employees]_vars

\* An update without a password of a row whose email it changed.
C27_Witness ==
    /\ UpdatedWithoutPassword(resp)
    /\ resp.err = NoErr
    /\ \E e \in employees :
          /\ e.id = resp.id
          /\ e.email = "doesnotexist@x.com"
          /\ e.password = Hash("secret123")

\* C29: CreateEmployee given a first name, a last name and an email but no
\* password does not crash: it returns an error value, or it stores a row
\* with the hash of "default123" and returns the created employee.
C29_CreateWithoutPassword ==
    (/\ resp.op = "CreateEmployee"
     /\ resp.emp.FirstName # "" /\ resp.emp.LastName # ""
     /\ resp.emp.Email # Nil /\ resp.emp.Email # StringPtr("")
     /\ resp.emp.Password = Nil)
    => /\ ~resp.panic
       /\ \/ resp.err # NoErr
          \/ \E e \in resp.records : \E row \in employees :
                /\ row.id = e.ID
                /\ row.email = resp.emp.Email[1]
                /\ row.password = Hash(DefaultPassword)

\* The row that caller p is about to store shares its email, or its
\* personal number if it has one, with a row of somebody else.
WritesDuplicate(p) ==
    /\ writers[p].pc = "write"
    /\ \/ writers[p].op = "CreateEmployee"
       \/ \E e \in employees : e.id = writers[p].id
    /\ \E e \in employees :
          /\ writers[p].op = "UpdateEmployee" => e.id # writers[p].id
          /\ \/ e.email = writers[p].emp.Email[1]
             \/ /\ writers[p].emp.PersonalNumber # Nil
                /\ e.personal_number = writers[p].emp.PersonalNumber

C30_OneRequestID ==
    \A rec \in logRecords : rec.request_id = <<rec.request>>

====
